---- MODULE Spec2Model ----
(***************************************************************************)
(* A model of the Oort compiler (package oortc): the build pipeline of     *)
(* __main__.main, the module resolver, the symbol table builder, the macro *)
(* expander, the parser and the emitter.                                   *)
(*                                                                         *)
(* AST nodes are records with a "kind" field naming the node class.  A     *)
(* node's scope attribute is an index into the scope arena of the symbol   *)
(* pass that set it; 0 is None.  An emitted line is the sequence of its    *)
(* space-separated words.                                                  *)
(***************************************************************************)
EXTENDS Integers, Sequences, FiniteSets, TLC

\* With(value, Body) is Body applied to value: a local name for a value that
\* is computed once, before Body is.
With(value, Body(_)) == CHOOSE result \in {Body(v) : v \in {value}} : TRUE

\* ------------------------------------------------------------------ AST
\* src/oortc/ast.py

NoScope == 0

Identifier(name) == [kind |-> "Identifier", name |-> name]

NumberLiteral(value) == [kind |-> "NumberLiteral", value |-> value]

StringLiteral(value) == [kind |-> "StringLiteral", value |-> value]

BinaryExpr(left, op, right) ==
  [kind |-> "BinaryExpr", left |-> left, op |-> op, right |-> right]

CallExpression(callee, arguments) ==
  [kind |-> "CallExpression", callee |-> callee, arguments |-> arguments]

\* an absent node (else_body = None, alias = None)
NoNode == [kind |-> "None"]

\* name and alias are Identifier nodes; alias is NoNode when absent
ImportItem(name, alias) == [kind |-> "ImportItem", name |-> name, alias |-> alias]

ImportStatement(path, is_star_import, items) ==
  [kind |-> "ImportStatement", path |-> path, is_star_import |-> is_star_import,
   items |-> items, scope |-> NoScope]

Block(statements) == [kind |-> "Block", statements |-> statements, scope |-> NoScope]

FunctionDeclaration(name, params, body) ==
  [kind |-> "FunctionDeclaration", name |-> name, params |-> params,
   body |-> body, scope |-> NoScope]

MacroDeclaration(name, params, body) ==
  [kind |-> "MacroDeclaration", name |-> name, params |-> params,
   body |-> body, scope |-> NoScope]

OnBlock(event_type, body) ==
  [kind |-> "OnBlock", event_type |-> event_type, body |-> body, scope |-> NoScope]

IfStatement(condition, if_body, else_body) ==
  [kind |-> "IfStatement", condition |-> condition, if_body |-> if_body,
   else_body |-> else_body, scope |-> NoScope]

ForStatement(variable_type, variable_name, iterable, body) ==
  [kind |-> "ForStatement", variable_type |-> variable_type,
   variable_name |-> variable_name, iterable |-> iterable, body |-> body,
   scope |-> NoScope]

WhileStatement(condition, body) ==
  [kind |-> "WhileStatement", condition |-> condition, body |-> body,
   scope |-> NoScope]

AssignmentStatement(target, value) ==
  [kind |-> "AssignmentStatement", target |-> target, value |-> value,
   scope |-> NoScope]

CallStatement(expression) ==
  [kind |-> "CallStatement", expression |-> expression, scope |-> NoScope]

Module(path, statements) ==
  [kind |-> "Module", path |-> path, statements |-> statements, scope |-> NoScope]

\* ------------------------------------------------------------------ parser
\* src/oortc/parser.py
\* A token is [type, value]; a token sequence ends with the EOF token.  A
\* STRING token's value is kept without its quotes, so strip('"') is done.
\* Positions are 1-based: Python's self.current is pos - 1.

Tok(type, value) == [type |-> type, value |-> value]

EOF == Tok("EOF", "")

\* the numbers whose decimal text int() is asked to read back
MaxNumber == 12

\* int(text)
ParseInt(text) == CHOOSE n \in 0..MaxNumber : ToString(n) = text

PRECEDENCE(type) ==
  CASE type = "EQUALS" -> 1
    [] type \in {"EQUALS_EQUALS", "NOT_EQUALS", "LESS", "GREATER", "LESS_EQUALS",
                 "GREATER_EQUALS"} -> 2
    [] type \in {"PLUS", "MINUS"} -> 3
    [] type \in {"ASTERISK", "DIVIDE"} -> 4
    [] type = "LPAREN" -> 5
    [] OTHER -> 0

\* a parse result: the node and the position after it, or a ParserError
Parsed(node, pos) == [ok |-> TRUE, node |-> node, pos |-> pos]

ParserError(pos) == [ok |-> FALSE, node |-> NoNode, pos |-> pos]

is_at_end(tokens, pos) == tokens[pos].type = "EOF"

check(tokens, pos, type) == ~is_at_end(tokens, pos) /\ tokens[pos].type = type

check_next(tokens, pos, type) ==
  IF is_at_end(tokens, pos) \/ tokens[pos + 1].type = "EOF" THEN FALSE
  ELSE tokens[pos + 1].type = type

\* the statement form parse_statement takes for a statement that starts with
\* no keyword
IsAssignmentStart(tokens, pos) ==
  check(tokens, pos, "IDENT") /\ check_next(tokens, pos, "EQUALS")

\* The parser's mutually recursive methods call one another through
\* ParseRule, which dispatches on the method's name; arg is the method's
\* remaining argument.
RECURSIVE ParseRule(_, _, _, _)

parse_statement(tokens, pos) == ParseRule("parse_statement", tokens, pos, 0)

parse_block(tokens, pos) == ParseRule("parse_block", tokens, pos, 0)

parse_expression(tokens, pos, precedence) ==
  ParseRule("parse_expression", tokens, pos, precedence)

parse_prefix_(tokens, pos) ==
  CASE check(tokens, pos, "IDENT") -> Parsed(Identifier(tokens[pos].value), pos + 1)
    [] check(tokens, pos, "NUMBER") ->
         Parsed(NumberLiteral(ParseInt(tokens[pos].value)), pos + 1)
    [] check(tokens, pos, "STRING") -> Parsed(StringLiteral(tokens[pos].value), pos + 1)
    [] check(tokens, pos, "SELECTOR") -> Parsed(StringLiteral(tokens[pos].value), pos + 1)
    [] check(tokens, pos, "LPAREN") ->
         With(parse_expression(tokens, pos + 1, 0), LAMBDA r :
           IF ~r.ok THEN r
           ELSE IF check(tokens, r.pos, "RPAREN") THEN Parsed(r.node, r.pos + 1)
           ELSE ParserError(r.pos))
    [] OTHER -> ParserError(pos)

\* the loop of parse_call_expression over the arguments: node is their list
ArgumentLoop_(tokens, pos, args) ==
  With(parse_expression(tokens, pos, 0), LAMBDA r :
    IF ~r.ok THEN r
    ELSE IF check(tokens, r.pos, "COMMA")
    THEN ParseRule("ArgumentLoop", tokens, r.pos + 1, Append(args, r.node))
    ELSE Parsed(Append(args, r.node), r.pos))

parse_call_expression(tokens, pos, callee) ==
  IF callee.kind # "Identifier" THEN ParserError(pos - 1)
  ELSE IF ~check(tokens, pos, "LPAREN") THEN ParserError(pos)
  ELSE With(IF check(tokens, pos + 1, "RPAREN") THEN Parsed(<<>>, pos + 1)
            ELSE ParseRule("ArgumentLoop", tokens, pos + 1, <<>>), LAMBDA r :
         IF ~r.ok THEN r
         ELSE IF check(tokens, r.pos, "RPAREN")
         THEN Parsed(CallExpression(callee, r.node), r.pos + 1)
         ELSE ParserError(r.pos))

parse_infix_(tokens, pos, left) ==
  IF tokens[pos].type = "LPAREN" THEN parse_call_expression(tokens, pos, left)
  ELSE With(parse_expression(tokens, pos + 1, PRECEDENCE(tokens[pos].type)), LAMBDA r :
         IF ~r.ok THEN r
         ELSE Parsed(BinaryExpr(left, tokens[pos].value, r.node), r.pos))

\* the while loop of parse_expression
ExpressionLoop_(tokens, pos, left, precedence) ==
  IF ~is_at_end(tokens, pos) /\ precedence < PRECEDENCE(tokens[pos].type)
  THEN With(ParseRule("parse_infix", tokens, pos, left), LAMBDA r :
         IF ~r.ok THEN r
         ELSE ParseRule("ExpressionLoop", tokens, r.pos,
                        [left |-> r.node, precedence |-> precedence]))
  ELSE Parsed(left, pos)

parse_expression_(tokens, pos, precedence) ==
  With(ParseRule("parse_prefix", tokens, pos, 0), LAMBDA r :
    IF ~r.ok THEN r
    ELSE ParseRule("ExpressionLoop", tokens, r.pos,
                   [left |-> r.node, precedence |-> precedence]))

\* match('SEMICOLON') after a statement
SkipSemicolon(tokens, pos) == IF check(tokens, pos, "SEMICOLON") THEN pos + 1 ELSE pos

\* the loop of parse_block: node is the list of statements
BlockLoop_(tokens, pos, statements) ==
  IF check(tokens, pos, "RBRACE") \/ is_at_end(tokens, pos)
  THEN Parsed(statements, pos)
  ELSE IF check(tokens, pos, "SEMICOLON")
  THEN ParseRule("BlockLoop", tokens, pos + 1, statements)
  ELSE With(parse_statement(tokens, pos), LAMBDA r :
         IF ~r.ok THEN r
         ELSE ParseRule("BlockLoop", tokens, r.pos, Append(statements, r.node)))

parse_block_(tokens, pos) ==
  IF ~check(tokens, pos, "LBRACE") THEN ParserError(pos)
  ELSE With(ParseRule("BlockLoop", tokens, pos + 1, <<>>), LAMBDA r :
         IF ~r.ok THEN r
         ELSE IF check(tokens, r.pos, "RBRACE") THEN Parsed(Block(r.node), r.pos + 1)
         ELSE ParserError(r.pos))

\* the loop of parse_import_statement over the items
RECURSIVE ImportItemLoop(_, _, _)
ImportItemLoop(tokens, pos, items) ==
  IF ~check(tokens, pos, "IDENT") THEN ParserError(pos)
  ELSE LET name == Identifier(tokens[pos].value)
           aliased == check(tokens, pos + 1, "KW_AS")
       IN IF aliased /\ ~check(tokens, pos + 2, "IDENT") THEN ParserError(pos + 2)
          ELSE LET item == ImportItem(name, IF aliased
                                            THEN Identifier(tokens[pos + 2].value)
                                            ELSE NoNode)
                   next == IF aliased THEN pos + 3 ELSE pos + 1
               IN IF check(tokens, next, "COMMA")
                  THEN ImportItemLoop(tokens, next + 1, Append(items, item))
                  ELSE Parsed(Append(items, item), next)

\* pos is the position after 'from'
parse_import_statement(tokens, pos) ==
  IF ~check(tokens, pos, "STRING") THEN ParserError(pos)
  ELSE IF ~check(tokens, pos + 1, "KW_IMPORT") THEN ParserError(pos + 1)
  ELSE IF check(tokens, pos + 2, "ASTERISK")
  THEN Parsed(ImportStatement(StringLiteral(tokens[pos].value), TRUE, <<>>), pos + 3)
  ELSE With(ImportItemLoop(tokens, pos + 2, <<>>), LAMBDA r :
         IF ~r.ok THEN r
         ELSE Parsed(ImportStatement(StringLiteral(tokens[pos].value), FALSE, r.node),
                     r.pos))

\* the loop of parse_param_list over the parameters
RECURSIVE ParamLoop(_, _, _)
ParamLoop(tokens, pos, params) ==
  IF ~check(tokens, pos, "IDENT") THEN ParserError(pos)
  ELSE IF check(tokens, pos + 1, "COMMA")
  THEN ParamLoop(tokens, pos + 2, Append(params, Identifier(tokens[pos].value)))
  ELSE Parsed(Append(params, Identifier(tokens[pos].value)), pos + 1)

parse_param_list(tokens, pos) ==
  IF ~check(tokens, pos, "LPAREN") THEN ParserError(pos)
  ELSE With(IF check(tokens, pos + 1, "RPAREN") THEN Parsed(<<>>, pos + 1)
            ELSE ParamLoop(tokens, pos + 1, <<>>), LAMBDA r :
         IF ~r.ok THEN r
         ELSE IF check(tokens, r.pos, "RPAREN") THEN Parsed(r.node, r.pos + 1)
         ELSE ParserError(r.pos))

\* parse_function_declaration and parse_macro_declaration: pos is the position
\* after the keyword
parse_declaration(tokens, pos, kind) ==
  IF ~check(tokens, pos, "IDENT") THEN ParserError(pos)
  ELSE With(parse_param_list(tokens, pos + 1), LAMBDA ps :
         IF ~ps.ok THEN ps
         ELSE With(parse_block(tokens, ps.pos), LAMBDA body :
                IF ~body.ok THEN body
                ELSE Parsed(IF kind = "KW_FN"
                            THEN FunctionDeclaration(Identifier(tokens[pos].value),
                                                     ps.node, body.node)
                            ELSE MacroDeclaration(Identifier(tokens[pos].value),
                                                  ps.node, body.node), body.pos)))

parse_on_block(tokens, pos) ==
  IF ~(check(tokens, pos, "KW_LOAD") \/ check(tokens, pos, "KW_TICK"))
  THEN ParserError(pos)
  ELSE With(parse_block(tokens, pos + 1), LAMBDA body :
         IF ~body.ok THEN body
         ELSE Parsed(OnBlock(tokens[pos].value, body.node), body.pos))

parse_if_statement(tokens, pos) ==
  With(parse_expression(tokens, pos, 0), LAMBDA condition :
    IF ~condition.ok THEN condition
    ELSE With(parse_block(tokens, condition.pos), LAMBDA if_body :
           IF ~if_body.ok THEN if_body
           ELSE IF ~check(tokens, if_body.pos, "KW_ELSE")
           THEN Parsed(IfStatement(condition.node, if_body.node, NoNode), if_body.pos)
           ELSE With(parse_block(tokens, if_body.pos + 1), LAMBDA else_body :
                  IF ~else_body.ok THEN else_body
                  ELSE Parsed(IfStatement(condition.node, if_body.node, else_body.node),
                              else_body.pos))))

parse_for_statement(tokens, pos) ==
  IF ~check(tokens, pos, "IDENT") THEN ParserError(pos)
  ELSE IF ~check(tokens, pos + 1, "IDENT") THEN ParserError(pos + 1)
  ELSE IF ~check(tokens, pos + 2, "KW_IN") THEN ParserError(pos + 2)
  ELSE With(parse_expression(tokens, pos + 3, 0), LAMBDA iterable :
         IF ~iterable.ok THEN iterable
         ELSE With(parse_block(tokens, iterable.pos), LAMBDA body :
                IF ~body.ok THEN body
                ELSE Parsed(ForStatement(Identifier(tokens[pos].value),
                                         Identifier(tokens[pos + 1].value),
                                         iterable.node, body.node), body.pos)))

parse_while_statement(tokens, pos) ==
  With(parse_expression(tokens, pos, 0), LAMBDA condition :
    IF ~condition.ok THEN condition
    ELSE With(parse_block(tokens, condition.pos), LAMBDA body :
           IF ~body.ok THEN body
           ELSE Parsed(WhileStatement(condition.node, body.node), body.pos)))

parse_assignment_statement(tokens, pos) ==
  IF ~check(tokens, pos, "IDENT") THEN ParserError(pos)
  ELSE IF ~check(tokens, pos + 1, "EQUALS") THEN ParserError(pos + 1)
  ELSE With(parse_expression(tokens, pos + 2, 0), LAMBDA value :
         IF ~value.ok THEN value
         ELSE Parsed(AssignmentStatement(Identifier(tokens[pos].value), value.node),
                     SkipSemicolon(tokens, value.pos)))

parse_call_statement(tokens, pos) ==
  With(parse_expression(tokens, pos, 0), LAMBDA expr :
    IF ~expr.ok THEN expr
    ELSE IF expr.node.kind # "CallExpression" THEN ParserError(expr.pos)
    ELSE Parsed(CallStatement(expr.node), SkipSemicolon(tokens, expr.pos)))

parse_statement_(tokens, pos) ==
  CASE check(tokens, pos, "KW_FROM") -> parse_import_statement(tokens, pos + 1)
    [] check(tokens, pos, "KW_FN") -> parse_declaration(tokens, pos + 1, "KW_FN")
    [] check(tokens, pos, "KW_MACRO") -> parse_declaration(tokens, pos + 1, "KW_MACRO")
    [] check(tokens, pos, "KW_ON") -> parse_on_block(tokens, pos + 1)
    [] check(tokens, pos, "KW_IF") -> parse_if_statement(tokens, pos + 1)
    [] check(tokens, pos, "KW_FOR") -> parse_for_statement(tokens, pos + 1)
    [] check(tokens, pos, "KW_WHILE") -> parse_while_statement(tokens, pos + 1)
    [] OTHER -> IF IsAssignmentStart(tokens, pos)
                THEN parse_assignment_statement(tokens, pos)
                ELSE parse_call_statement(tokens, pos)

ParseRule(rule, tokens, pos, arg) ==
  CASE rule = "parse_statement" -> parse_statement_(tokens, pos)
    [] rule = "parse_block" -> parse_block_(tokens, pos)
    [] rule = "BlockLoop" -> BlockLoop_(tokens, pos, arg)
    [] rule = "parse_expression" -> parse_expression_(tokens, pos, arg)
    [] rule = "ExpressionLoop" -> ExpressionLoop_(tokens, pos, arg.left, arg.precedence)
    [] rule = "parse_infix" -> parse_infix_(tokens, pos, arg)
    [] rule = "parse_prefix" -> parse_prefix_(tokens, pos)
    [] rule = "ArgumentLoop" -> ArgumentLoop_(tokens, pos, arg)

\* the loop of Parser.parse: node is the list of statements
RECURSIVE ModuleLoop(_, _, _)
ModuleLoop(tokens, pos, statements) ==
  IF is_at_end(tokens, pos) THEN Parsed(statements, pos)
  ELSE IF check(tokens, pos, "SEMICOLON") THEN ModuleLoop(tokens, pos + 1, statements)
  ELSE With(parse_statement(tokens, pos), LAMBDA r :
         IF ~r.ok THEN r ELSE ModuleLoop(tokens, r.pos, Append(statements, r.node)))

\* Parser(tokens, file_path, source_code).parse()
parse(tokens, file_path) ==
  With(ModuleLoop(tokens, 1, <<>>), LAMBDA r :
    IF ~r.ok THEN r ELSE Parsed(Module(file_path, r.node), r.pos))

\* ------------------------------------------------------------------ symbols
\* src/oortc/symbols.py

Symbol(name, symbol_type, defined_at, module_path) ==
  [name |-> name, symbol_type |-> symbol_type, defined_at |-> defined_at,
   module_path |-> module_path]

\* the result of a lookup that finds nothing
NoSymbol == [name |-> "", symbol_type |-> "None"]

\* A scope of the arena: its parent's index (0: no parent) and its symbols in
\* insertion order.
Scope(parent) == [parent |-> parent, symbols |-> <<>>]

ScopeHas(scope, name) == \E i \in 1..Len(scope.symbols) : scope.symbols[i].name = name

ScopeGet(scope, name) ==
  scope.symbols[CHOOSE i \in 1..Len(scope.symbols) : scope.symbols[i].name = name]

\* Scope.find on scope number s of arena scopes
RECURSIVE ScopeFind(_, _, _, _)
ScopeFind(scopes, s, name, recursive) ==
  IF ScopeHas(scopes[s], name) THEN ScopeGet(scopes[s], name)
  ELSE IF recursive /\ scopes[s].parent # 0
       THEN ScopeFind(scopes, scopes[s].parent, name, TRUE)
       ELSE NoSymbol

\* The builder's state: the arena, current_scope (0: None) and the exception
\* raised so far ("": none).
NewBuilder == [scopes |-> <<>>, current_scope |-> 0, err |-> ""]

enter_scope(st) ==
  [st EXCEPT !.scopes = Append(st.scopes, Scope(st.current_scope)),
             !.current_scope = Len(st.scopes) + 1]

exit_scope(st) ==
  IF st.current_scope # 0 /\ st.scopes[st.current_scope].parent # 0
  THEN [st EXCEPT !.current_scope = st.scopes[st.current_scope].parent]
  ELSE st

\* a symbol of a name the scope has is added again
ScopeAdd_again(st, symbol) ==
  IF st.err # "" THEN st
  ELSE [st EXCEPT !.scopes[st.current_scope].symbols = Append(@, symbol)]

\* Scope.add on the current scope
ScopeAdd(st, symbol) ==
  IF st.err # "" THEN st
  ELSE IF ScopeHas(st.scopes[st.current_scope], symbol.name)
       THEN [st EXCEPT !.err = "SymbolError"]
       ELSE [st EXCEPT !.scopes[st.current_scope].symbols = Append(@, symbol)]

\* node.name of an expression node: only an Identifier has the attribute
HasName(node) == node.kind = "Identifier"

AttrError(st) == IF st.err # "" THEN st ELSE [st EXCEPT !.err = "AttributeError"]

\* the VARIABLE symbols a construct declares in its own scope (a function's
\* parameters, a for loop's variable), one Scope.add per name node
RECURSIVE AddVariables(_, _, _)
AddVariables(st, names, path) ==
  IF names = <<>> \/ st.err # "" THEN st
  ELSE IF ~HasName(Head(names)) THEN AttrError(st)
  ELSE AddVariables(
         ScopeAdd(st, Symbol(Head(names).name, "VARIABLE", [kind |-> "Identifier"], path)),
         Tail(names), path)

\* the light description of a declaring node kept in Symbol.defined_at
DeclRef(node) ==
  IF node.kind = "MacroDeclaration" THEN node ELSE [kind |-> node.kind]

\* the node whose name an import item declares
ImportItemName(item) == IF item.alias # NoNode THEN item.alias ELSE item.name

\* visit_ImportStatement's loop over the items from item i on
RECURSIVE AddImportItems(_, _, _, _)
AddImportItems(st, items, i, path) ==
  IF i > Len(items) \/ st.err # "" THEN st
  ELSE IF ~HasName(ImportItemName(items[i])) THEN AttrError(st)
  ELSE AddImportItems(
         ScopeAdd(st, Symbol(ImportItemName(items[i]).name, "IMPORT", items[i], path)),
         items, i + 1, path)

\* A visit returns the visited node (with the scopes the visit set) and the
\* builder's state.
RECURSIVE BuilderVisit(_, _, _)
RECURSIVE BuilderVisitAll(_, _, _, _)

\* the loops with a visit_Block that leaves a statement the scope it has
BuilderVisitAll_scope_set_once(stmts, st, path, setScope) ==
  IF stmts = <<>> \/ st.err # "" THEN [nodes |-> stmts, st |-> st]
  ELSE With(BuilderVisit(IF setScope /\ Head(stmts).scope = NoScope
                         THEN [Head(stmts) EXCEPT !.scope = st.current_scope]
                         ELSE Head(stmts), st, path), LAMBDA r1 :
         With(BuilderVisitAll(Tail(stmts), r1.st, path, setScope), LAMBDA r2 :
           [nodes |-> <<r1.node>> \o r2.nodes, st |-> r2.st]))

\* visit_Block's loop (setScope) and generic_visit's loop over a statement list
BuilderVisitAll(stmts, st, path, setScope) ==
  IF stmts = <<>> \/ st.err # "" THEN [nodes |-> stmts, st |-> st]
  ELSE With(BuilderVisit(IF setScope THEN [Head(stmts) EXCEPT !.scope = st.current_scope]
                         ELSE Head(stmts), st, path), LAMBDA r1 :
         With(BuilderVisitAll(Tail(stmts), r1.st, path, setScope), LAMBDA r2 :
           [nodes |-> <<r1.node>> \o r2.nodes, st |-> r2.st]))

\* the end of a visit that entered a scope: the node with the visited
\* statements, and exit_scope unless an exception is on its way
BuilderLeave(node, r) ==
  [node |-> [node EXCEPT !.statements = r.nodes],
   st |-> IF r.st.err # "" THEN r.st ELSE exit_scope(r.st)]

\* a body block visited in a new scope, with the names declared in it first
BuilderBody(body, st, path, names) ==
  With(enter_scope(st), LAMBDA s1 :
    With(AddVariables(s1, names, path), LAMBDA s2 :
      BuilderLeave([body EXCEPT !.scope = s1.current_scope],
                   IF s2.err # "" THEN [nodes |-> body.statements, st |-> s2]
                   ELSE BuilderVisitAll(body.statements, s2, path, TRUE))))

BuilderVisit(node, st, path) ==
  IF st.err # "" THEN [node |-> node, st |-> st]
  ELSE CASE node.kind = "Module" ->
         With(enter_scope(st), LAMBDA s1 :
           BuilderLeave([node EXCEPT !.scope = s1.current_scope],
                        BuilderVisitAll(node.statements, s1, path, FALSE)))
       [] node.kind = "FunctionDeclaration" ->
         IF ~HasName(node.name) THEN [node |-> node, st |-> AttrError(st)]
         ELSE With(ScopeAdd(st, Symbol(node.name.name, "FUNCTION", DeclRef(node), path)),
                   LAMBDA s1 :
                IF s1.err # "" THEN [node |-> node, st |-> s1]
                ELSE With(BuilderBody(node.body, s1, path, node.params), LAMBDA r :
                       [node |-> [node EXCEPT !.body = r.node], st |-> r.st]))
       [] node.kind = "MacroDeclaration" ->
         [node |-> node,
          st |-> IF ~HasName(node.name) THEN AttrError(st)
                 ELSE ScopeAdd(st, Symbol(node.name.name, "MACRO", DeclRef(node), path))]
       [] node.kind = "IfStatement" ->
         With(BuilderBody(node.if_body, st, path, <<>>), LAMBDA r1 :
           With(IF node.else_body = NoNode \/ r1.st.err # ""
                THEN [node |-> node.else_body, st |-> r1.st]
                ELSE BuilderBody(node.else_body, r1.st, path, <<>>), LAMBDA r2 :
             [node |-> [node EXCEPT !.if_body = r1.node, !.else_body = r2.node],
              st |-> r2.st]))
       [] node.kind \in {"OnBlock", "ForStatement", "WhileStatement"} ->
         With(BuilderBody(node.body, st, path,
                          IF node.kind = "ForStatement" THEN <<node.variable_name>>
                          ELSE <<>>), LAMBDA r :
           [node |-> [node EXCEPT !.body = r.node], st |-> r.st])
       [] node.kind = "ImportStatement" ->
         [node |-> node,
          st |-> IF node.is_star_import THEN st
                 ELSE AddImportItems(st, node.items, 1, path)]
       [] node.kind = "AssignmentStatement" ->
         [node |-> node,
          st |-> IF ~HasName(node.target) THEN AttrError(st)
                 ELSE IF ScopeHas(st.scopes[st.current_scope], node.target.name) THEN st
                 ELSE ScopeAdd(st, Symbol(node.target.name, "VARIABLE", DeclRef(node), path))]
       [] OTHER -> [node |-> node, st |-> st]

\* SymbolTableBuilder().build(module_node, module_path): the module with its
\* scopes set, the arena, and the exception raised ("": none)
build(module_node, module_path) ==
  With(BuilderVisit(module_node, NewBuilder, module_path), LAMBDA r :
    [module |-> r.node, scopes |-> r.st.scopes, err |-> r.st.err])

\* ------------------------------------------------------------------ macros
\* src/oortc/macros.py
\* A module map (Dict[Path, Module]) is the sequence of its entries, in
\* insertion order: [path, module, scopes], scopes being the arena of the
\* symbol pass that last visited the module.

\* dict(zip(params, arguments)): the entries in order; a later entry of the
\* same name replaces an earlier one
ArgMap(params, arguments) ==
  [i \in 1..Len(params) |-> [name |-> params[i].name, arg |-> arguments[i]]]

ArgMapHas(arg_map, name) == \E i \in 1..Len(arg_map) : arg_map[i].name = name

\* the argument looked up again when it is the name of a parameter
ArgMapGet_rescanned(arg_map, name) ==
  With(arg_map[CHOOSE i \in 1..Len(arg_map) :
                 /\ arg_map[i].name = name
                 /\ \A j \in (i + 1)..Len(arg_map) : arg_map[j].name # name].arg,
       LAMBDA arg :
    IF arg.kind = "Identifier" /\ arg.name # name /\ ArgMapHas(arg_map, arg.name)
    THEN arg_map[CHOOSE i \in 1..Len(arg_map) : arg_map[i].name = arg.name].arg
    ELSE arg)

\* arg_map.get(name, node) for a name the map holds
ArgMapGet(arg_map, name) ==
  arg_map[CHOOSE i \in 1..Len(arg_map) :
            /\ arg_map[i].name = name
            /\ \A j \in (i + 1)..Len(arg_map) : arg_map[j].name # name].arg

\* SubstitutionVisitor.visit: generic_visit over every Node field and every
\* list field, with visit_Identifier replacing a parameter's identifier by the
\* argument expression (which is not visited again)
RECURSIVE Substitute(_, _)
Substitute(node, arg_map) ==
  LET SubAll(list) == [i \in 1..Len(list) |-> Substitute(list[i], arg_map)]
  IN CASE node.kind = "Identifier" ->
            IF ArgMapHas(arg_map, node.name) THEN ArgMapGet(arg_map, node.name) ELSE node
       [] node.kind = "BinaryExpr" ->
            [node EXCEPT !.left = Substitute(@, arg_map), !.right = Substitute(@, arg_map)]
       [] node.kind = "CallExpression" ->
            [node EXCEPT !.callee = Substitute(@, arg_map), !.arguments = SubAll(@)]
       [] node.kind = "ImportItem" ->
            [node EXCEPT !.name = Substitute(@, arg_map), !.alias = Substitute(@, arg_map)]
       [] node.kind = "ImportStatement" ->
            [node EXCEPT !.items = SubAll(@)]
       [] node.kind = "Block" ->
            [node EXCEPT !.statements = SubAll(@)]
       [] node.kind \in {"FunctionDeclaration", "MacroDeclaration"} ->
            [node EXCEPT !.name = Substitute(@, arg_map), !.body = Substitute(@, arg_map),
                         !.params = SubAll(@)]
       [] node.kind = "OnBlock" ->
            [node EXCEPT !.body = Substitute(@, arg_map)]
       [] node.kind = "IfStatement" ->
            [node EXCEPT !.condition = Substitute(@, arg_map),
                         !.if_body = Substitute(@, arg_map),
                         !.else_body = Substitute(@, arg_map)]
       [] node.kind = "ForStatement" ->
            [node EXCEPT !.variable_type = Substitute(@, arg_map),
                         !.variable_name = Substitute(@, arg_map),
                         !.iterable = Substitute(@, arg_map),
                         !.body = Substitute(@, arg_map)]
       [] node.kind = "WhileStatement" ->
            [node EXCEPT !.condition = Substitute(@, arg_map),
                         !.body = Substitute(@, arg_map)]
       [] node.kind = "AssignmentStatement" ->
            [node EXCEPT !.target = Substitute(@, arg_map),
                         !.value = Substitute(@, arg_map)]
       [] node.kind = "CallStatement" ->
            [node EXCEPT !.expression = Substitute(@, arg_map)]
       [] OTHER -> node

\* the places <<i, j>> of the top-level macro declarations called name, over
\* the modules of the map
MacroDeclPlaces(modules, name) ==
  {p \in UNION {{<<i, j>> : j \in 1..Len(modules[i].module.statements)} :
                 i \in 1..Len(modules)} :
     LET stmt == modules[p[1]].module.statements[p[2]]
     IN stmt.kind = "MacroDeclaration" /\ stmt.name.name = name}

FirstPlace(places) ==
  CHOOSE p \in places :
    \A q \in places : p[1] < q[1] \/ (p[1] = q[1] /\ p[2] <= q[2])

\* MacroExpander._find_symbol
\* the name searched in the other modules when the local symbol is an import
ImportSearchName(name, symbol) == name

FindSymbol(modules, scopes, name, scope) ==
  IF scope = NoScope THEN NoSymbol
  ELSE With(ScopeFind(scopes, scope, name, TRUE), LAMBDA symbol :
         IF symbol.symbol_type # "IMPORT" THEN symbol
         ELSE With(MacroDeclPlaces(modules, ImportSearchName(name, symbol)),
                   LAMBDA places :
                IF places = {} THEN symbol
                ELSE With(FirstPlace(places), LAMBDA p :
                       Symbol(name, "MACRO", modules[p[1]].module.statements[p[2]],
                              modules[p[1]].path))))

NoError == [err |-> "", expects |-> 0, got |-> 0]

\* visit_CallStatement once the symbol is a macro's
ExpandMacro(node, macro_decl, arguments) ==
  IF macro_decl.kind # "MacroDeclaration"
  THEN [nodes |-> <<node>>, error |-> [NoError EXCEPT !.err = "MacroError"]]
  ELSE IF Len(arguments) # Len(macro_decl.params)
  THEN [nodes |-> <<node>>,
        error |-> [err |-> "MacroError", expects |-> Len(macro_decl.params),
                   got |-> Len(arguments)]]
  ELSE [nodes |-> Substitute(macro_decl.body,
                             ArgMap(macro_decl.params, arguments)).statements,
        error |-> NoError]

\* MacroExpander.visit_CallStatement: the statements that replace the call
ExpandCall(modules, scopes, node) ==
  With(FindSymbol(modules, scopes, node.expression.callee.name, node.scope),
       LAMBDA symbol :
    IF symbol.symbol_type # "MACRO" THEN [nodes |-> <<node>>, error |-> NoError]
    ELSE ExpandMacro(node, symbol.defined_at, node.expression.arguments))

\* NodeTransformer.generic_visit under MacroExpander: a statement list is
\* rebuilt from the results of visiting its statements, a list result being
\* spliced in (and not visited); the first exception ends the traversal
RECURSIVE ExpandVisit(_, _, _)
RECURSIVE ExpandList(_, _, _)

ExpandList(modules, scopes, stmts) ==
  IF stmts = <<>> THEN [nodes |-> <<>>, error |-> NoError]
  ELSE With(ExpandVisit(modules, scopes, Head(stmts)), LAMBDA r1 :
         IF r1.error.err # "" THEN [nodes |-> stmts, error |-> r1.error]
         ELSE With(ExpandList(modules, scopes, Tail(stmts)), LAMBDA r2 :
                [nodes |-> r1.nodes \o r2.nodes, error |-> r2.error]))

ExpandVisit(modules, scopes, node) ==
  CASE node.kind = "CallStatement" -> ExpandCall(modules, scopes, node)
    [] node.kind \in {"FunctionDeclaration", "MacroDeclaration", "OnBlock",
                      "ForStatement", "WhileStatement"} ->
         With(ExpandList(modules, scopes, node.body.statements), LAMBDA r :
           [nodes |-> <<[node EXCEPT !.body.statements = r.nodes]>>,
            error |-> r.error])
    [] node.kind = "IfStatement" ->
         With(ExpandList(modules, scopes, node.if_body.statements), LAMBDA r1 :
           IF node.else_body = NoNode \/ r1.error.err # ""
           THEN [nodes |-> <<[node EXCEPT !.if_body.statements = r1.nodes]>>,
                 error |-> r1.error]
           ELSE With(ExpandList(modules, scopes, node.else_body.statements), LAMBDA r2 :
                  [nodes |-> <<[node EXCEPT !.if_body.statements = r1.nodes,
                                            !.else_body.statements = r2.nodes]>>,
                   error |-> r2.error]))
    [] OTHER -> [nodes |-> <<node>>, error |-> NoError]

\* MacroExpander(modules).expand(module): the module of entry k expanded
expand(modules, k) ==
  With(ExpandList(modules, modules[k].scopes, modules[k].module.statements), LAMBDA r :
    [module |-> [modules[k].module EXCEPT !.statements = r.nodes],
     error |-> r.error])

\* ------------------------------------------------------------------ emitter
\* src/oortc/emitter.py
\* A path is [stem, suffix]: Path("lib/util.oort") is ["lib/util", ".oort"],
\* relative to the project directory.  config.build.debug_message is "absent"
\* when the attribute does not exist.

Path(stem, suffix) == [stem |-> stem, suffix |-> suffix]

VARS_OBJECTIVE == "oort_vars"

BUILTIN_COMMANDS ==
  {"say", "give", "kill", "scoreboard", "execute", "schedule", "function", "tag"}

\* str(oort_path.with_suffix('')).replace('\\', '/')
oort_path_to_function_base(oort_path) == oort_path.stem

\* the file of a target function under the datapack root
McfunctionFile(config, function_path) ==
  "data/" \o config.package.namespace \o "/functions/" \o function_path \o ".mcfunction"

\* Emitter.__init__: the emitter's state, or the AttributeError of reading
\* config.build.debug_message
NewEmitter(config) ==
  [output_lines |-> <<>>, function_count |-> 0, log |-> <<>>,
   err |-> IF config.build.debug_message = "absent" THEN "AttributeError" ELSE ""]

EmitterRaise(em, err) == IF em.err # "" THEN em ELSE [em EXCEPT !.err = err]

AppendLine(em, line) ==
  IF em.err # "" THEN em ELSE [em EXCEPT !.output_lines = Append(@, line)]

\* one effect on the file system, in order; function is the name under which
\* the target runtime knows a function file ("": the file is none)
LogOp(em, op, path, function, lines) ==
  IF em.err # "" THEN em
  ELSE [em EXCEPT !.log = Append(@, [op |-> op, path |-> path, function |-> function,
                                      lines |-> lines])]

write_mcfunction(em, config, function_path, lines) ==
  IF config.build.debug_message = "absent" THEN EmitterRaise(em, "AttributeError")
  ELSE LogOp(em, "write", McfunctionFile(config, function_path),
             config.package.namespace \o ":" \o function_path, lines)

\* _format_expr: the text as its space-separated parts
RECURSIVE format_expr(_)
format_expr(expr) ==
  CASE expr.kind = "StringLiteral" -> <<expr.value>>
    [] expr.kind = "NumberLiteral" -> <<ToString(expr.value)>>
    [] expr.kind = "Identifier" -> <<expr.name>>
    [] expr.kind = "BinaryExpr" ->
         format_expr(expr.left) \o <<expr.op>> \o format_expr(expr.right)
    [] OTHER -> <<"">>

\* the text of several parts as one part
RECURSIVE JoinParts(_)
JoinParts(parts) ==
  IF parts = <<>> THEN ""
  ELSE IF Len(parts) = 1 THEN parts[1]
  ELSE parts[1] \o " " \o JoinParts(Tail(parts))

RECURSIVE Flatten(_)
Flatten(lists) == IF lists = <<>> THEN <<>> ELSE Head(lists) \o Flatten(Tail(lists))

\* the range of a literal comparison with "<" ending at the literal itself
LiteralRange_to_literal(op, right) ==
  CASE op = "==" -> right
    [] op = "<"  -> ".." \o right
    [] op = "<=" -> ".." \o right
    [] op = ">"  -> ToString(ParseInt(right) + 1) \o ".."
    [] op = ">=" -> right \o ".."

\* the range a literal comparison tests, as the text after "matches"
LiteralRange(op, right) ==
  CASE op = "==" -> right
    [] op = "<"  -> ".." \o ToString(ParseInt(right) - 1)
    [] op = "<=" -> ".." \o right
    [] op = ">"  -> ToString(ParseInt(right) + 1) \o ".."
    [] op = ">=" -> right \o ".."

\* _format_condition
format_condition(condition, func_to_run) ==
  IF condition.kind # "BinaryExpr"
  THEN <<"#", "ERROR:", "Unsupported", "condition", "type", condition.kind>>
  ELSE LET left == format_expr(condition.left)
           op == condition.op
           right == format_expr(condition.right)
       IN IF condition.right.kind = "NumberLiteral"
          THEN IF op \in {"==", "<", "<=", ">", ">="}
               THEN <<"execute", "if", "score">> \o left
                      \o <<VARS_OBJECTIVE, "matches", LiteralRange(op, right[1]),
                           "run", "function", func_to_run>>
               ELSE <<"#", "ERROR:", "Unsupported", "operator", "'" \o op \o "'",
                      "for", "literal", "comparison">>
          ELSE <<"execute", "if", "score">> \o left \o <<VARS_OBJECTIVE, op>> \o right
                 \o <<VARS_OBJECTIVE, "run", "function", func_to_run>>

\* the symbol types _find_function_path resolves to a function path
FunctionSymbolTypes == {"FUNCTION"}

\* _find_function_path: "" is None
find_function_path(config, scopes, name, scope) ==
  IF scope = NoScope THEN ""
  ELSE LET symbol == ScopeFind(scopes, scope, name, TRUE)
       IN IF symbol.symbol_type \in FunctionSymbolTypes
          THEN config.package.namespace \o ":"
                 \o oort_path_to_function_base(symbol.module_path) \o "/" \o name
          ELSE ""

\* visit_CallStatement's line for a callee name
CallLine(config, scopes, node, callee) ==
  IF callee \in BUILTIN_COMMANDS
  THEN <<callee>> \o (IF node.expression.arguments = <<>> THEN <<"">>
                      ELSE Flatten([i \in 1..Len(node.expression.arguments) |->
                                      format_expr(node.expression.arguments[i])]))
  ELSE LET func_path == find_function_path(config, scopes, callee, node.scope)
       IN IF func_path # "" THEN <<"function", func_path>>
          ELSE <<"#", "ERROR:", "Unresolved", "function", "call", "to",
                 "'" \o callee \o "'">>

\* the header lines visit_OnBlock emits before the body
OnBlockHeader(event_type) ==
  <<<<"#", "Event:", "on", event_type>>>>
    \o (IF event_type = "load"
        THEN <<<<"scoreboard", "objectives", "add", VARS_OBJECTIVE, "dummy">>>>
        ELSE <<>>)

\* visit_AssignmentStatement's lines for a target name
AssignmentLines(var_name, value) ==
  CASE value.kind = "NumberLiteral" ->
         <<<<"scoreboard", "players", "set", var_name, VARS_OBJECTIVE,
             ToString(value.value)>>>>
    [] value.kind = "Identifier" ->
         <<<<"scoreboard", "players", "operation", var_name, VARS_OBJECTIVE, "=",
             value.name, VARS_OBJECTIVE>>>>
    [] value.kind = "BinaryExpr" ->
         LET left_var == format_expr(value.left)
             right_var == format_expr(value.right)
             op == value.op
             copy == <<"scoreboard", "players", "operation", var_name, VARS_OBJECTIVE,
                       "=">> \o left_var \o <<VARS_OBJECTIVE>>
         IN IF op \in {"+", "-"} /\ value.right.kind = "NumberLiteral"
            THEN <<copy,
                   <<"scoreboard", "players", IF op = "+" THEN "add" ELSE "remove",
                     var_name, VARS_OBJECTIVE>> \o right_var>>
            ELSE IF op \in {"+", "-", "*", "/", "%"}
            THEN <<copy,
                   <<"scoreboard", "players", "operation", var_name, VARS_OBJECTIVE,
                     op \o "=">> \o right_var \o <<VARS_OBJECTIVE>>>>
            ELSE <<copy,
                   <<"#", "ERROR:", "Unsupported", "binary", "operator",
                     "'" \o op \o "'", "in", "assignment">>>>
    [] OTHER ->
         <<<<"#", "ERROR:", "Unsupported", "assignment", "for", "value", "of", "type",
             value.kind>>>>

RECURSIVE AppendLines(_, _)
AppendLines(em, lines) ==
  IF lines = <<>> THEN em ELSE AppendLines(AppendLine(em, Head(lines)), Tail(lines))

\* the names of the functions visit_WhileStatement generates for counter n
WhileBase(path, n) == oort_path_to_function_base(path) \o "/while_" \o ToString(n)

\* The visitor: ctx is [config, path, scopes] (the configuration, the
\* current module's path and its scope arena); the result is the emitter's state.
RECURSIVE EmitVisit(_, _, _)
RECURSIVE EmitVisitAll(_, _, _)

\* generic_visit's loop over a statement list
EmitVisitAll(stmts, em, ctx) ==
  IF stmts = <<>> \/ em.err # "" THEN em
  ELSE EmitVisitAll(Tail(stmts), EmitVisit(Head(stmts), em, ctx), ctx)

\* the end of a visit that wrote the collected lines to a function file:
\* output_lines becomes lines
WriteCollected(em, config, function_path, lines) ==
  With(write_mcfunction(em, config, function_path, em.output_lines), LAMBDA e :
    IF e.err # "" THEN e ELSE [e EXCEPT !.output_lines = lines])

\* _generate_function that counts the function after lowering its body
generate_function_counted_last(base_name, node_body, em, ctx) ==
  With(EmitVisit(node_body, [em EXCEPT !.output_lines = <<>>], ctx), LAMBDA e :
    With(base_name \o "_" \o ToString(e.function_count + 1), LAMBDA func_path :
      [em |-> WriteCollected(IF e.err # "" THEN e ELSE [e EXCEPT !.function_count = @ + 1],
                             ctx.config, func_path, em.output_lines),
       func_name |-> ctx.config.package.namespace \o ":" \o func_path]))

\* _generate_function: the state after it, its return value in func_name
generate_function(base_name, node_body, em, ctx) ==
  With(base_name \o "_" \o ToString(em.function_count + 1), LAMBDA func_path :
    [em |-> WriteCollected(
              EmitVisit(node_body,
                        [em EXCEPT !.function_count = @ + 1, !.output_lines = <<>>], ctx),
              ctx.config, func_path, em.output_lines),
     func_name |-> ctx.config.package.namespace \o ":" \o func_path])

\* visit_WhileStatement with a body that schedules itself, not the check
EmitWhile_body_schedules_body(node, em, ctx, count, ns) ==
  With(WriteCollected(
         AppendLine(
           EmitVisit(node.body,
                     [em EXCEPT !.function_count = count, !.output_lines = <<>>], ctx),
           <<"schedule", "function", ns \o ":" \o WhileBase(ctx.path, count) \o "_body",
             "1t">>),
         ctx.config, WhileBase(ctx.path, count) \o "_body", em.output_lines),
       LAMBDA e3 :
    With(write_mcfunction(
           e3, ctx.config, WhileBase(ctx.path, count) \o "_check",
           <<<<"#", "While", "loop", "check", "for:">> \o format_expr(node.condition),
             format_condition(node.condition,
                              ns \o ":" \o WhileBase(ctx.path, count) \o "_body")>>),
         LAMBDA e4 :
      AppendLine(e4, <<"function", ns \o ":" \o WhileBase(ctx.path, count) \o "_check">>)))

\* visit_WhileStatement for counter value count
EmitWhile(node, em, ctx, count, ns) ==
  With(WriteCollected(
         AppendLine(
           EmitVisit(node.body,
                     [em EXCEPT !.function_count = count, !.output_lines = <<>>], ctx),
           <<"schedule", "function", ns \o ":" \o WhileBase(ctx.path, count) \o "_check",
             "1t">>),
         ctx.config, WhileBase(ctx.path, count) \o "_body", em.output_lines),
       LAMBDA e3 :
    With(write_mcfunction(
           e3, ctx.config, WhileBase(ctx.path, count) \o "_check",
           <<<<"#", "While", "loop", "check", "for:">> \o format_expr(node.condition),
             format_condition(node.condition,
                              ns \o ":" \o WhileBase(ctx.path, count) \o "_body")>>),
         LAMBDA e4 :
      AppendLine(e4, <<"function", ns \o ":" \o WhileBase(ctx.path, count) \o "_check">>)))

EmitVisit(node, em, ctx) ==
  LET base == oort_path_to_function_base(ctx.path)
      absent == ctx.config.build.debug_message = "absent"
  IN
  IF em.err # "" THEN em
  ELSE CASE node.kind \in {"Module", "Block"} -> EmitVisitAll(node.statements, em, ctx)
    [] node.kind = "FunctionDeclaration" ->
         IF absent \/ ~HasName(node.name) THEN EmitterRaise(em, "AttributeError")
         ELSE WriteCollected(
                EmitVisit(node.body,
                          AppendLine(em, <<"#", "Function:", node.name.name>>), ctx),
                ctx.config, base \o "/" \o node.name.name, <<>>)
    [] node.kind = "OnBlock" ->
         IF absent THEN EmitterRaise(em, "AttributeError")
         ELSE WriteCollected(
                EmitVisit(node.body, AppendLines(em, OnBlockHeader(node.event_type)), ctx),
                ctx.config, base \o "/on_" \o node.event_type, <<>>)
    [] node.kind = "CallStatement" ->
         IF ~HasName(node.expression.callee) THEN EmitterRaise(em, "AttributeError")
         ELSE AppendLine(em, CallLine(ctx.config, ctx.scopes, node,
                                      node.expression.callee.name))
    [] node.kind = "IfStatement" ->
         With(generate_function(base \o "/if_body", node.if_body, em, ctx), LAMBDA g :
           AppendLine(g.em, format_condition(node.condition, g.func_name)))
    [] node.kind = "ForStatement" ->
         IF ~HasName(node.variable_name) THEN EmitterRaise(em, "AttributeError")
         ELSE With(generate_function(base \o "/for_loop_" \o node.variable_name.name,
                                     node.body, em, ctx), LAMBDA g :
                AppendLine(g.em, <<"execute", "as">> \o format_expr(node.iterable)
                                   \o <<"at", "@s", "run", "function", g.func_name>>))
    [] node.kind = "WhileStatement" ->
         EmitWhile(node, em, ctx, em.function_count + 1, ctx.config.package.namespace)
    [] node.kind = "AssignmentStatement" ->
         IF ~HasName(node.target) THEN EmitterRaise(em, "AttributeError")
         ELSE AppendLines(em, AssignmentLines(node.target.name, node.value))
    [] OTHER -> em

\* the directory is removed whatever build.clean says
emit_descriptors_always_clean(em, config, root_exists) ==
  LET ns == config.package.namespace
      e1 == IF root_exists THEN LogOp(em, "rmtree", "", "", <<>>) ELSE em
      e2 == LogOp(e1, "mkdir", "data/" \o ns \o "/functions", "", <<>>)
      e3 == LogOp(e2, "write", "pack.mcmeta", "", <<>>)
      e4 == LogOp(e3, "write", "data/minecraft/tags/functions/load.json", "",
                  <<<<ns \o ":" \o oort_path_to_function_base(config.entrypoints.load)
                        \o "/on_load">>>>)
  IN LogOp(e4, "write", "data/minecraft/tags/functions/tick.json", "",
           <<<<ns \o ":" \o oort_path_to_function_base(config.entrypoints.tick)
                 \o "/on_tick">>>>)

\* emit_all's effects before the modules are visited: _setup_directories,
\* _emit_pack_mcmeta and _emit_tags; root_exists says whether the datapack
\* directory exists before the build
emit_descriptors(em, config, root_exists) ==
  LET ns == config.package.namespace
      e1 == IF config.build.clean /\ root_exists THEN LogOp(em, "rmtree", "", "", <<>>) ELSE em
      e2 == LogOp(e1, "mkdir", "data/" \o ns \o "/functions", "", <<>>)
      e3 == LogOp(e2, "write", "pack.mcmeta", "", <<>>)
      e4 == LogOp(e3, "write", "data/minecraft/tags/functions/load.json", "",
                  <<<<ns \o ":" \o oort_path_to_function_base(config.entrypoints.load)
                        \o "/on_load">>>>)
  IN LogOp(e4, "write", "data/minecraft/tags/functions/tick.json", "",
           <<<<ns \o ":" \o oort_path_to_function_base(config.entrypoints.tick)
                 \o "/on_tick">>>>)

\* emit_all's loop over the modules from entry k on
RECURSIVE EmitModules(_, _, _, _)
EmitModules(em, config, modules, k) ==
  IF k > Len(modules) \/ em.err # "" THEN em
  ELSE EmitModules(
         EmitVisit(modules[k].module, em,
                   [config |-> config, path |-> modules[k].path,
                    scopes |-> modules[k].scopes]),
         config, modules, k + 1)

\* Emitter(config, modules).emit_all()
emit_all(config, modules, root_exists) ==
  EmitModules(emit_descriptors(NewEmitter(config), config, root_exists),
              config, modules, 1)

\* ------------------------------------------------------------------ resolver
\* src/oortc/lexer.py, src/oortc/resolver.py
\* A source file is the sequence of the lexer's matches on its text, without
\* whitespace and comments; a character no pattern matches is a MISMATCH.

\* Lexer.tokenize, from the matches on: the tokens, or a LexerError
tokenize(source_code) ==
  IF \E i \in 1..Len(source_code) : source_code[i].type = "MISMATCH"
  THEN [ok |-> FALSE, tokens |-> <<>>]
  ELSE [ok |-> TRUE, tokens |-> Append(source_code, EOF)]

\* parse_file: the module, or the exception raised
parse_file(file_path, source_code) ==
  With(tokenize(source_code), LAMBDA t :
    IF ~t.ok THEN [err |-> "LexerError", module |-> NoNode]
    ELSE With(parse(t.tokens, file_path), LAMBDA r :
           IF ~r.ok THEN [err |-> "ParserError", module |-> NoNode]
           ELSE [err |-> "", module |-> r.node]))

\* (base_dir / value).resolve(): every source file of the model lies in the
\* project directory, and so does what an import string names
ResolvePath(value) ==
  CASE value \in {"a.oort", "./a.oort"} -> Path("a", ".oort")
    [] value \in {"b.oort", "./b.oort"} -> Path("b", ".oort")
    [] value \in {"c.oort", "./c.oort"} -> Path("c", ".oort")
    [] value \in {"d.oort", "./d.oort"} -> Path("d", ".oort")
    [] OTHER -> Path(value, "")

\* ImportFinder.find: the import statements of a node, in visiting order
RECURSIVE FindImports(_)
FindImports(node) ==
  LET All(list) == Flatten([i \in 1..Len(list) |-> FindImports(list[i])])
  IN CASE node.kind = "ImportStatement" -> <<node>>
       [] node.kind \in {"Module", "Block"} -> All(node.statements)
       [] node.kind \in {"FunctionDeclaration", "MacroDeclaration", "OnBlock",
                         "ForStatement", "WhileStatement"} -> FindImports(node.body)
       [] node.kind = "IfStatement" ->
            FindImports(node.if_body) \o FindImports(node.else_body)
       [] OTHER -> <<>>

\* _discover_imports looking at the module's own statements only
discover_imports_top_level(module, processed) ==
  LET import_nodes == SelectSeq(module.statements,
                                LAMBDA stmt : stmt.kind = "ImportStatement")
      paths == [i \in 1..Len(import_nodes) |-> ResolvePath(import_nodes[i].path.value)]
  IN SelectSeq(paths, LAMBDA imported_path : imported_path \notin processed)

\* Resolver._discover_imports
discover_imports(module, processed) ==
  LET import_nodes == FindImports(module)
      paths == [i \in 1..Len(import_nodes) |-> ResolvePath(import_nodes[i].path.value)]
  IN SelectSeq(paths, LAMBDA imported_path : imported_path \notin processed)

\* the exceptions discover_and_parse_all turns into a ResolverError
ResolverCaught == {"IOError", "ParserError", "SymbolError"}

\* the exceptions main turns into "Build failed" and exit status 1
MainCaught ==
  {"ConfigError", "ResolverError", "EmitterError", "ParserError", "SymbolError",
   "MacroError", "FileNotFoundError"}

\* a block of any event counts
has_on_block_of_any_event(module, event_type) ==
  \E i \in 1..Len(module.statements) : module.statements[i].kind = "OnBlock"

has_on_block(module, event_type) ==
  \E i \in 1..Len(module.statements) :
    /\ module.statements[i].kind = "OnBlock"
    /\ module.statements[i].event_type = event_type

\* ------------------------------------------------------------------ config
\* src/oortc/config.py
\* properties.json as what from_project_dir makes of it: status "missing" (no
\* file), "invalid" (a required field is missing or malformed) or "ok".

\* ProjectConfig.from_project_dir on a valid descriptor; BuildConfig has no
\* debug_message field
from_project_dir(properties) ==
  [package |-> [name |-> "pack", namespace |-> properties.namespace],
   entrypoints |-> [load |-> ResolvePath(properties.load),
                    tick |-> ResolvePath(properties.tick)],
   build |-> [datapack_name |-> "pack-datapack", clean |-> properties.clean,
              debug_message |-> "absent"]]

\* ------------------------------------------------------------------ state

VARIABLES
  pc,                \* the stage of main's try block
  properties,        \* the project's properties.json
  fs,                \* the source files: path -> [kind, source]
  root_exists,       \* whether the datapack directory exists before the build
  config,            \* the ProjectConfig
  files_to_process,  \* the resolver's worklist
  processed_files,   \* Resolver.processed_files
  modules,           \* Resolver.modules, then main's modules
  reads,             \* the files opened and parsed so far, in order
  k,                 \* the position of a stage's loop over the module map
  expanded_modules,  \* main's expanded_modules
  emitter,           \* the Emitter's state
  outcome,           \* how main ended: [status, err, stage], stage being the
                     \* stage that ended it
  rt,                \* the target runtime that loads the datapack
  lexer              \* a Lexer at work on a source text

vars ==
  <<pc, properties, fs, root_exists, config, files_to_process, processed_files,
    modules, reads, k, expanded_modules, emitter, outcome, rt, lexer>>

NoConfig == [package |-> [name |-> "", namespace |-> ""],
             entrypoints |-> [load |-> Path("", ""), tick |-> Path("", "")],
             build |-> [datapack_name |-> "", clean |-> TRUE,
                        debug_message |-> "absent"]]

NoEmitter == [output_lines |-> <<>>, function_count |-> 0, log |-> <<>>, err |-> ""]

Running == [status |-> "running", err |-> "", stage |-> ""]

\* the target runtime before the datapack is loaded: the tick, the scores of
\* the objective, the scheduled functions and the record of what ran
NoRuntime ==
  [loaded |-> FALSE, tick |-> 0, objectives |-> {}, scores |-> <<>>, scheduled |-> <<>>,
   trace |-> <<>>]

\* no Lexer is at work
NoLexer ==
  [source_code |-> <<>>, pos |-> 0, line |-> 1, column |-> 1, tokens |-> <<>>,
   err |-> "", returned |-> FALSE]

\* an exception is reported and the emission stage runs all the same
Fails_and_emits(err) ==
  /\ pc' = "emit"
  /\ outcome' = [status |-> IF err \in MainCaught THEN "exit1" ELSE "propagated",
                 err |-> err, stage |-> pc]

\* main's except clauses: a recognized error prints "Build failed" and exits
\* with status 1, any other exception is raised again
Fails(err) ==
  /\ pc' = "end"
  /\ outcome' = [status |-> IF err \in MainCaught THEN "exit1" ELSE "propagated",
                 err |-> err, stage |-> pc]

\* ------------------------------------------------------------------ main
\* src/oortc/__main__.py

\* step 1: ProjectConfig.from_project_dir
LoadConfig ==
  /\ pc = "config"
  /\ IF properties.status # "ok"
     THEN Fails("ConfigError") /\ UNCHANGED config
     ELSE /\ config' = from_project_dir(properties)
          /\ pc' = "resolve"
          /\ UNCHANGED outcome
  /\ UNCHANGED <<properties, fs, root_exists, rt, lexer, files_to_process, processed_files,
                 modules, reads, k, expanded_modules, emitter>>

\* step 2, Resolver.discover_and_parse_all: the worklist is seeded
ResolveStart ==
  /\ pc = "resolve"
  /\ pc' = "resolve_loop"
  /\ files_to_process' = <<config.entrypoints.load, config.entrypoints.tick>>
  /\ UNCHANGED <<properties, fs, root_exists, rt, lexer, config, processed_files, modules,
                 reads, k, expanded_modules, emitter, outcome>>

\* a path the file system does not hold is no file
FileAt(files, path) ==
  IF path \in DOMAIN files THEN files[path] ELSE [kind |-> "missing", source |-> <<>>]

\* the exception of one iteration as it leaves discover_and_parse_all
ResolverRaises(err) == IF err \in ResolverCaught THEN "ResolverError" ELSE err

\* files_to_process[0] read in place of pop(0): the list is left as it was
pop_kept(files) == files

\* files_to_process.pop(0): the list that is left
pop(files) == Tail(files)

\* the test that skips a path of the worklist
AlreadyProcessed(file_path, processed) == file_path \in processed

\* self.modules[file_path] = module_ast: a new key is entered last, a key of
\* the map keeps its place
MapPut(map, path, module) ==
  IF \E i \in 1..Len(map) : map[i].path = path
  THEN [i \in 1..Len(map) |->
          IF map[i].path = path THEN [map[i] EXCEPT !.module = module] ELSE map[i]]
  ELSE Append(map, [path |-> path, module |-> module, scopes |-> <<>>])

\* one iteration of the while loop
ResolveStep ==
  /\ pc = "resolve_loop"
  /\ files_to_process # <<>>
  /\ \E file_path \in {Head(files_to_process)} :
     \E file \in {FileAt(fs, file_path)} :
     \E parsed \in {parse_file(file_path, file.source)} :
        IF AlreadyProcessed(file_path, processed_files)
        THEN /\ files_to_process' = pop(files_to_process)
             /\ UNCHANGED <<pc, processed_files, modules, reads, outcome>>
        ELSE IF file.kind = "missing"
        THEN /\ Fails("ResolverError")
             /\ files_to_process' = pop(files_to_process)
             /\ UNCHANGED <<processed_files, modules, reads>>
        ELSE IF file.kind = "unreadable"
        THEN /\ Fails(ResolverRaises("IOError"))
             /\ files_to_process' = pop(files_to_process)
             /\ UNCHANGED <<processed_files, modules, reads>>
        ELSE IF parsed.err # ""
        THEN /\ Fails(ResolverRaises(parsed.err))
             /\ files_to_process' = pop(files_to_process)
             /\ reads' = Append(reads, file_path)
             /\ UNCHANGED <<processed_files, modules>>
        ELSE /\ modules' = MapPut(modules, file_path, parsed.module)
             /\ processed_files' = processed_files \cup {file_path}
             /\ reads' = Append(reads, file_path)
             /\ files_to_process' =
                  pop(files_to_process)
                    \o discover_imports(parsed.module, processed_files \cup {file_path})
             /\ UNCHANGED <<pc, outcome>>
  /\ UNCHANGED <<properties, fs, root_exists, rt, lexer, config, k, expanded_modules, emitter>>

\* the module of a path in a module map
ModuleAt(map, path) ==
  map[CHOOSE i \in 1..Len(map) : map[i].path = path].module

InMap(map, path) == \E i \in 1..Len(map) : map[i].path = path

\* Resolver._validate_entrypoints: the ResolverError it raises, or ""
validate_entrypoints(cfg, map) ==
  IF ~InMap(map, cfg.entrypoints.load) \/ ~InMap(map, cfg.entrypoints.tick)
  THEN "ResolverError"
  ELSE IF ~has_on_block(ModuleAt(map, cfg.entrypoints.load), "load")
  THEN "ResolverError"
  ELSE IF ~has_on_block(ModuleAt(map, cfg.entrypoints.tick), "tick")
  THEN "ResolverError"
  ELSE ""

\* the worklist is empty: the entrypoints are validated and the map returned
ResolveEnd ==
  /\ pc = "resolve_loop"
  /\ files_to_process = <<>>
  /\ IF validate_entrypoints(config, modules) # ""
     THEN Fails("ResolverError") /\ UNCHANGED k
     ELSE pc' = "symbols1" /\ k' = 1 /\ UNCHANGED outcome
  /\ UNCHANGED <<properties, fs, root_exists, rt, lexer, config, files_to_process,
                 processed_files, modules, reads, expanded_modules, emitter>>

\* steps 3 and 5: one iteration of a loop that builds the symbol table of a
\* module, over modules (step 3) or expanded_modules (step 5)
BuildSymbols ==
  /\ pc \in {"symbols1", "symbols2"}
  /\ \E map \in {IF pc = "symbols1" THEN modules ELSE expanded_modules} :
     \E r \in {build(map[k].module, map[k].path)} :
     \E built \in {[map EXCEPT ![k] = [path |-> map[k].path, module |-> r.module,
                                       scopes |-> r.scopes]]} :
        IF r.err # ""
        THEN Fails(r.err) /\ UNCHANGED <<k, modules, expanded_modules>>
        ELSE /\ IF pc = "symbols1"
                THEN modules' = built /\ UNCHANGED expanded_modules
                ELSE expanded_modules' = built /\ UNCHANGED modules
             /\ IF k < Len(map)
                THEN k' = k + 1 /\ UNCHANGED pc
                ELSE k' = 1 /\ pc' = (IF pc = "symbols1" THEN "expand" ELSE "emit")
             /\ UNCHANGED outcome
  /\ UNCHANGED <<properties, fs, root_exists, rt, lexer, config, files_to_process,
                 processed_files, reads, emitter>>

\* step 4: one iteration of the comprehension that expands every module
Expand ==
  /\ pc = "expand"
  /\ \E r \in {expand(modules, k)} :
        IF r.error.err # ""
        THEN Fails(r.error.err) /\ UNCHANGED <<k, expanded_modules>>
        ELSE /\ expanded_modules' =
                  Append(expanded_modules,
                         [path |-> modules[k].path, module |-> r.module,
                          scopes |-> modules[k].scopes])
             /\ IF k < Len(modules)
                THEN k' = k + 1 /\ UNCHANGED pc
                ELSE k' = 1 /\ pc' = "symbols2"
             /\ UNCHANGED outcome
  /\ UNCHANGED <<properties, fs, root_exists, rt, lexer, config, files_to_process,
                 processed_files, modules, reads, emitter>>

\* step 6: Emitter(config, expanded_modules).emit_all(), then "Build successful!"
Emit ==
  /\ pc = "emit"
  /\ \E em \in {emit_all(config, expanded_modules, root_exists)} :
        /\ emitter' = em
        /\ IF em.err # "" THEN Fails(em.err)
           ELSE pc' = "end" /\ outcome' = [status |-> "success", err |-> "", stage |-> pc]
  /\ UNCHANGED <<properties, fs, root_exists, rt, lexer, config, files_to_process,
                 processed_files, modules, reads, k, expanded_modules>>

Next ==
  \/ LoadConfig
  \/ ResolveStart
  \/ ResolveStep
  \/ ResolveEnd
  \/ BuildSymbols
  \/ Expand
  \/ Emit

\* ------------------------------------------------------------------ target runtime
\* The game that loads the datapack. A function file is known under
\* <namespace>:<path below functions/, without .mcfunction>; the functions of
\* the load tag run once when the datapack is loaded, those of the tick tag
\* run every tick; `schedule function F 1t` runs F in the next tick and
\* replaces a schedule F already has.

HasFunction(log, name) ==
  \E i \in 1..Len(log) : log[i].op = "write" /\ log[i].function = name

\* the lines of a function file: what was written to it last
FunctionLines(log, name) ==
  log[CHOOSE i \in 1..Len(log) :
        /\ log[i].op = "write" /\ log[i].function = name
        /\ \A j \in (i + 1)..Len(log) : log[j].function # name].lines

\* the functions a tag file lists
TagValues(log, path) ==
  With(log[CHOOSE i \in 1..Len(log) : log[i].op = "write" /\ log[i].path = path].lines,
       LAMBDA lines : [i \in 1..Len(lines) |-> lines[i][1]])

\* the bounds a range of an `execute if score ... matches` test may name
RangeEnds == (0 - 1)..(MaxNumber + 1)

\* s is in the range written N, ..N or N..
InRange(range, s) ==
  \E n \in RangeEnds :
    \/ range = ToString(n) /\ s = n
    \/ range = ".." \o ToString(n) /\ s <= n
    \/ range = ToString(n) \o ".." /\ s >= n

\* the comparison of two scores by an operator of `execute if score`; any
\* other operator is no command
ScoreCompare(a, op, b) ==
  CASE op = "<" -> a < b
    [] op = "<=" -> a <= b
    [] op = "=" -> a = b
    [] op = ">=" -> a >= b
    [] op = ">" -> a > b
    [] OTHER -> FALSE

\* a score holder has a score in an objective once a command has set it
HasScore(rs, holder, objective) ==
  objective \in rs.objectives /\ holder \in DOMAIN rs.scores

Score(rs, holder) == IF holder \in DOMAIN rs.scores THEN rs.scores[holder] ELSE 0

\* a command on an objective that does not exist fails
SetScore(rs, holder, objective, n) ==
  IF objective \notin rs.objectives THEN rs
  ELSE [rs EXCEPT !.scores = [h \in DOMAIN rs.scores \cup {holder} |->
                                IF h = holder THEN n ELSE rs.scores[h]]]

\* `scoreboard players operation`
ScoreOperation(a, op, b) ==
  CASE op = "=" -> b
    [] op = "+=" -> a + b
    [] op = "-=" -> a - b
    [] op = "*=" -> a * b
    [] op = "/=" -> IF b = 0 THEN a ELSE a \div b
    [] op = "%=" -> IF b = 0 THEN a ELSE a % b
    [] OTHER -> a

\* what ran is recorded: a function entered or left, a score tested by the
\* command of function that runs target, a function scheduled
Record(rs, kind, function, target, held, at) ==
  [rs EXCEPT !.trace = Append(@, [kind |-> kind, function |-> function, target |-> target,
                                   held |-> held, at |-> at])]

\* `schedule function target 1t`
Schedule(rs, target) ==
  [rs EXCEPT !.scheduled =
     Append(SelectSeq(@, LAMBDA entry : entry.function # target),
            [function |-> target, at |-> rs.tick + 1])]

RECURSIVE RunFunction(_, _, _)
RECURSIVE RunLines(_, _, _, _)

\* `execute if score ... run function target`, the test having come out as held
RunIf(log, name, target, held, rs) ==
  With(Record(rs, "test", name, target, held, rs.tick), LAMBDA r :
    IF held THEN RunFunction(log, target, r) ELSE r)

\* one command of the function name
RunCommand(log, name, line, rs) ==
  CASE Len(line) = 2 /\ line[1] = "function" -> RunFunction(log, line[2], rs)
    [] Len(line) = 10 /\ SubSeq(line, 1, 3) = <<"execute", "if", "score">>
         /\ line[6] = "matches" /\ SubSeq(line, 8, 9) = <<"run", "function">> ->
         RunIf(log, name, line[10],
               HasScore(rs, line[4], line[5]) /\ InRange(line[7], Score(rs, line[4])), rs)
    [] Len(line) = 11 /\ SubSeq(line, 1, 3) = <<"execute", "if", "score">>
         /\ SubSeq(line, 9, 10) = <<"run", "function">> ->
         RunIf(log, name, line[11],
               /\ HasScore(rs, line[4], line[5]) /\ HasScore(rs, line[7], line[8])
               /\ ScoreCompare(Score(rs, line[4]), line[6], Score(rs, line[7])), rs)
    [] Len(line) = 4 /\ SubSeq(line, 1, 2) = <<"schedule", "function">> /\ line[4] = "1t" ->
         With(Record(rs, "schedule", name, line[3], TRUE, rs.tick + 1), LAMBDA r :
           Schedule(r, line[3]))
    [] Len(line) = 5 /\ SubSeq(line, 1, 3) = <<"scoreboard", "objectives", "add">> ->
         [rs EXCEPT !.objectives = @ \cup {line[4]}]
    [] Len(line) = 6 /\ SubSeq(line, 1, 2) = <<"scoreboard", "players">>
         /\ line[3] \in {"set", "add", "remove"} ->
         SetScore(rs, line[4], line[5],
                  CASE line[3] = "set" -> ParseInt(line[6])
                    [] line[3] = "add" -> Score(rs, line[4]) + ParseInt(line[6])
                    [] line[3] = "remove" -> Score(rs, line[4]) - ParseInt(line[6]))
    [] Len(line) = 8 /\ SubSeq(line, 1, 3) = <<"scoreboard", "players", "operation">> ->
         SetScore(rs, line[4], line[5],
                  ScoreOperation(Score(rs, line[4]), line[6], Score(rs, line[7])))
    [] OTHER -> rs

RunLines(log, name, lines, rs) ==
  IF lines = <<>> THEN rs
  ELSE With(RunCommand(log, name, Head(lines), rs), LAMBDA r :
         RunLines(log, name, Tail(lines), r))

\* `function name`: a function the datapack does not hold is no command
RunFunction(log, name, rs) ==
  IF ~HasFunction(log, name) THEN rs
  ELSE With(Record(rs, "enter", name, "", TRUE, rs.tick), LAMBDA entered :
         With(RunLines(log, name, FunctionLines(log, name), entered), LAMBDA r :
           Record(r, "exit", name, "", TRUE, r.tick)))

\* several functions, one after the other
RECURSIVE RunAll(_, _, _)
RunAll(log, names, rs) ==
  IF names = <<>> THEN rs
  ELSE With(RunFunction(log, Head(names), rs), LAMBDA r : RunAll(log, Tail(names), r))

\* the ticks the runtime is followed for
MaxTicks == 3

\* the datapack is loaded: the functions of the load tag run
RunLoad ==
  /\ pc = "end" /\ outcome.status = "success"
  /\ ~rt.loaded
  /\ rt' = RunAll(emitter.log, TagValues(emitter.log, "data/minecraft/tags/functions/load.json"),
                  [rt EXCEPT !.loaded = TRUE])
  /\ UNCHANGED <<pc, properties, fs, root_exists, lexer, config, files_to_process,
                 processed_files,
                 modules, reads, k, expanded_modules, emitter, outcome>>

\* a tick: the scheduled functions that are due run, then those of the tick tag
RunTick ==
  /\ pc = "end" /\ outcome.status = "success"
  /\ rt.loaded
  /\ rt.tick < MaxTicks
  /\ \E due \in {SelectSeq(rt.scheduled, LAMBDA entry : entry.at <= rt.tick + 1)} :
       rt' = RunAll(emitter.log,
                    [i \in 1..Len(due) |-> due[i].function]
                      \o TagValues(emitter.log, "data/minecraft/tags/functions/tick.json"),
                    [rt EXCEPT !.tick = @ + 1,
                               !.scheduled = SelectSeq(@, LAMBDA entry : entry.at > rt.tick + 1)])
  /\ UNCHANGED <<pc, properties, fs, root_exists, lexer, config, files_to_process,
                 processed_files,
                 modules, reads, k, expanded_modules, emitter, outcome>>

\* ------------------------------------------------------------------ lexer
\* src/oortc/lexer.py
\* A text is the sequence of its characters; positions count from 0 as in
\* the code.  The patterns are those of token_specification on ASCII text.

Letters ==
  {"a", "b", "c", "d", "e", "f", "g", "h", "i", "j", "k", "l", "m", "n",
   "o", "p", "q", "r", "s", "t", "u", "v", "w", "x", "y", "z", "A", "B",
   "C", "D", "E", "F", "G", "H", "I", "J", "K", "L", "M", "N", "O", "P",
   "Q", "R", "S", "T", "U", "V", "W", "X", "Y", "Z"}

Digits == {"0", "1", "2", "3", "4", "5", "6", "7", "8", "9"}

WordChars == Letters \cup Digits \cup {"_"}

Blanks == {" ", "\t"}

Token(type, value, line, column, start_char, end_char) ==
  [type |-> type, value |-> value, line |-> line, column |-> column,
   start_char |-> start_char, end_char |-> end_char]

\* Lexer(source_code)
Lexer(source_code) ==
  [source_code |-> source_code, pos |-> 0, line |-> 1, column |-> 1, tokens |-> <<>>,
   err |-> "", returned |-> FALSE]

\* one pattern of token_specification: its name and its regular expression,
\* given as a rule and the word the rule is about
Pattern(type, rule, word) == [type |-> type, rule |-> rule, word |-> word]

\* the patterns in the order of the alternation
token_specification ==
  << Pattern("COMMENT", "comment", <<>>),
     Pattern("WHITESPACE", "blanks", <<>>),
     Pattern("NEWLINE", "literal", <<"\n">>),
     Pattern("LBRACE", "literal", <<"{">>),
     Pattern("RBRACE", "literal", <<"}">>),
     Pattern("LPAREN", "literal", <<"(">>),
     Pattern("RPAREN", "literal", <<")">>),
     Pattern("COMMA", "literal", <<",">>),
     Pattern("SEMICOLON", "literal", <<";">>),
     Pattern("ASTERISK", "literal", <<"*">>),
     Pattern("EQUALS_EQUALS", "literal", <<"=", "=">>),
     Pattern("NOT_EQUALS", "literal", <<"!", "=">>),
     Pattern("GREATER_EQUALS", "literal", <<">", "=">>),
     Pattern("LESS_EQUALS", "literal", <<"<", "=">>),
     Pattern("EQUALS", "literal", <<"=">>),
     Pattern("GREATER", "literal", <<">">>),
     Pattern("LESS", "literal", <<"<">>),
     Pattern("PLUS", "literal", <<"+">>),
     Pattern("MINUS", "literal", <<"-">>),
     Pattern("DIVIDE", "literal", <<"/">>),
     Pattern("KW_FN", "keyword", <<"f", "n">>),
     Pattern("KW_ON", "keyword", <<"o", "n">>),
     Pattern("KW_LOAD", "keyword", <<"l", "o", "a", "d">>),
     Pattern("KW_TICK", "keyword", <<"t", "i", "c", "k">>),
     Pattern("KW_IF", "keyword", <<"i", "f">>),
     Pattern("KW_ELSE", "keyword", <<"e", "l", "s", "e">>),
     Pattern("KW_FROM", "keyword", <<"f", "r", "o", "m">>),
     Pattern("KW_IMPORT", "keyword", <<"i", "m", "p", "o", "r", "t">>),
     Pattern("KW_AS", "keyword", <<"a", "s">>),
     Pattern("KW_MACRO", "keyword", <<"m", "a", "c", "r", "o">>),
     Pattern("KW_FOR", "keyword", <<"f", "o", "r">>),
     Pattern("KW_IN", "keyword", <<"i", "n">>),
     Pattern("KW_WHILE", "keyword", <<"w", "h", "i", "l", "e">>),
     Pattern("NUMBER", "digits", <<>>),
     Pattern("STRING", "string", <<>>),
     Pattern("SELECTOR", "selector", <<>>),
     Pattern("IDENT", "ident", <<>>),
     Pattern("MISMATCH", "any", <<>>) >>

\* the character of text at position i
At(text, i) == text[i + 1]

\* the first position from i on whose character is not in set (or is in it,
\* for RunEndNot), or the length of the text
RECURSIVE RunEnd(_, _, _)
RunEnd(text, i, set) ==
  IF i < Len(text) /\ At(text, i) \in set THEN RunEnd(text, i + 1, set) ELSE i

RECURSIVE RunEndNot(_, _, _)
RunEndNot(text, i, set) ==
  IF i < Len(text) /\ At(text, i) \notin set THEN RunEndNot(text, i + 1, set) ELSE i

\* text holds word at position pos
Literal(text, pos, word) ==
  /\ pos + Len(word) <= Len(text)
  /\ SubSeq(text, pos + 1, pos + Len(word)) = word

\* \b at position i: a word character on exactly one side
Boundary(text, i) ==
  (i > 0 /\ At(text, i - 1) \in WordChars) # (i < Len(text) /\ At(text, i) \in WordChars)

\* the end of the match of `#.*` at a `#`: the end of the line
CommentEnd(text, pos) == RunEndNot(text, pos + 1, {"\n"})

\* the end of the match of a pattern at pos, pos when the pattern does not
\* match there (no pattern matches the empty text)
PatternEnd(pattern, text, pos) ==
  CASE pattern.rule = "comment" ->
         IF At(text, pos) = "#" THEN CommentEnd(text, pos) ELSE pos
    [] pattern.rule = "blanks" -> RunEnd(text, pos, Blanks)
    [] pattern.rule = "literal" ->
         IF Literal(text, pos, pattern.word) THEN pos + Len(pattern.word) ELSE pos
    [] pattern.rule = "keyword" ->
         IF /\ Literal(text, pos, pattern.word)
            /\ Boundary(text, pos)
            /\ Boundary(text, pos + Len(pattern.word))
         THEN pos + Len(pattern.word) ELSE pos
    [] pattern.rule = "digits" -> RunEnd(text, pos, Digits)
    [] pattern.rule = "string" ->
         IF At(text, pos) = "\"" /\ RunEndNot(text, pos + 1, {"\""}) < Len(text)
         THEN RunEndNot(text, pos + 1, {"\""}) + 1 ELSE pos
    [] pattern.rule = "selector" ->
         IF /\ At(text, pos) = "@"
            /\ pos + 1 < Len(text)
            /\ At(text, pos + 1) \in {"a", "p", "r", "e", "s"}
         THEN pos + 2 ELSE pos
    [] pattern.rule = "ident" ->
         IF At(text, pos) \in Letters \cup {"_"} THEN RunEnd(text, pos + 1, WordChars)
         ELSE pos
    [] pattern.rule = "any" -> IF At(text, pos) # "\n" THEN pos + 1 ELSE pos

\* the last pattern of the alternation that matches wins
Match_last_alternative(text, pos) ==
  With({i \in 1..Len(token_specification) :
          PatternEnd(token_specification[i], text, pos) > pos}, LAMBDA matching :
    IF matching = {} THEN [kind |-> "", end |-> pos]
    ELSE With(CHOOSE i \in matching : \A j \in matching : i >= j, LAMBDA last :
           [kind |-> token_specification[last].type,
            end |-> PatternEnd(token_specification[last], text, pos)]))

\* token_regex.match(source_code, pos): the first pattern of the alternation
\* that matches at pos, as [kind, end]; kind "" is no match
Match(text, pos) ==
  With({i \in 1..Len(token_specification) :
          PatternEnd(token_specification[i], text, pos) > pos}, LAMBDA matching :
    IF matching = {} THEN [kind |-> "", end |-> pos]
    ELSE With(CHOOSE i \in matching : \A j \in matching : i <= j, LAMBDA first :
           [kind |-> token_specification[first].type,
            end |-> PatternEnd(token_specification[first], text, pos)]))

\* Lexer.tokenize: one iteration of the while loop
tokenize_iteration(lx) ==
  With(Match(lx.source_code, lx.pos), LAMBDA match :
    IF match.kind \in {"", "MISMATCH"} THEN [lx EXCEPT !.err = "LexerError"]
    ELSE IF match.kind = "NEWLINE"
    THEN [lx EXCEPT !.pos = match.end, !.line = @ + 1, !.column = 1]
    ELSE IF match.kind \in {"WHITESPACE", "COMMENT"}
    THEN [lx EXCEPT !.pos = match.end, !.column = @ + (match.end - lx.pos)]
    ELSE [lx EXCEPT !.pos = match.end,
                    !.column = @ + (match.end - lx.pos),
                    !.tokens = Append(@, Token(match.kind,
                                               SubSeq(lx.source_code, lx.pos + 1, match.end),
                                               lx.line, lx.column, lx.pos, match.end))])

\* Lexer.tokenize: after the loop the end-of-input token is appended and the
\* tokens are returned
tokenize_return(lx) ==
  [lx EXCEPT !.tokens = Append(@, Token("EOF", <<>>, lx.line, lx.column, lx.pos, lx.pos)),
             !.returned = TRUE]

TokenizeStep ==
  /\ pc = "lex"
  /\ lexer.err = "" /\ ~lexer.returned
  /\ lexer.pos < Len(lexer.source_code)
  /\ lexer' = tokenize_iteration(lexer)
  /\ UNCHANGED <<pc, properties, fs, root_exists, rt, config, files_to_process,
                 processed_files, modules, reads, k, expanded_modules, emitter, outcome>>

TokenizeEnd ==
  /\ pc = "lex"
  /\ lexer.err = "" /\ ~lexer.returned
  /\ lexer.pos >= Len(lexer.source_code)
  /\ lexer' = tokenize_return(lexer)
  /\ UNCHANGED <<pc, properties, fs, root_exists, rt, config, files_to_process,
                 processed_files, modules, reads, k, expanded_modules, emitter, outcome>>

\* ------------------------------------------------------------------ inputs
\* Source texts, written as the lexer's matches (src/oortc/lexer.py, the
\* token specification).

Ident(name) == Tok("IDENT", name)

Number(n) == Tok("NUMBER", ToString(n))

String(text) == Tok("STRING", text)

LBRACE == Tok("LBRACE", "{")

RBRACE == Tok("RBRACE", "}")

LPAREN == Tok("LPAREN", "(")

RPAREN == Tok("RPAREN", ")")

COMMA == Tok("COMMA", ",")

EQUALS == Tok("EQUALS", "=")

\* from "path" import *
ImportStar(path) ==
  <<Tok("KW_FROM", "from"), String(path), Tok("KW_IMPORT", "import"), Tok("ASTERISK", "*")>>

\* from "path" import name
ImportName(path, name) ==
  <<Tok("KW_FROM", "from"), String(path), Tok("KW_IMPORT", "import"), Ident(name)>>

\* from "path" import name as alias
ImportAs(path, name, alias) ==
  ImportName(path, name) \o <<Tok("KW_AS", "as"), Ident(alias)>>

\* on load { body } and on tick { body }
OnLoad(body) ==
  <<Tok("KW_ON", "on"), Tok("KW_LOAD", "load"), LBRACE>> \o body \o <<RBRACE>>

OnTick(body) ==
  <<Tok("KW_ON", "on"), Tok("KW_TICK", "tick"), LBRACE>> \o body \o <<RBRACE>>

\* fn name() { body }
Fn(name, body) ==
  <<Tok("KW_FN", "fn"), Ident(name), LPAREN, RPAREN, LBRACE>> \o body \o <<RBRACE>>

\* macro name(params) { body }, params being the tokens between the parentheses
Macro(name, params, body) ==
  <<Tok("KW_MACRO", "macro"), Ident(name), LPAREN>> \o params
    \o <<RPAREN, LBRACE>> \o body \o <<RBRACE>>

\* name(args), args being the tokens between the parentheses
Call(name, args) == <<Ident(name), LPAREN>> \o args \o <<RPAREN>>

\* the handlers every entrypoint needs
Handlers == OnLoad(<<>>) \o OnTick(<<>>)

\* The texts a file of the build pipeline's projects may hold.
SourcePool ==
  << \* imports b and c
     ImportStar("b.oort") \o ImportStar("c.oort") \o Handlers,
     \* imports a and c
     ImportStar("a.oort") \o ImportName("c.oort", "f") \o Handlers,
     \* an import inside a block, through another spelling of b's path
     OnLoad(ImportStar("./b.oort")) \o OnTick(<<>>),
     \* no import
     Handlers,
     \* a character no token pattern matches
     Handlers \o <<Tok("MISMATCH", "$")>>,
     \* var x = 5
     <<Ident("var"), Ident("x"), EQUALS, Number(5)>> \o Handlers,
     \* two functions of one name
     Fn("f", <<>>) \o Fn("f", <<>>) \o Handlers,
     \* a macro of one parameter called with none
     Macro("m", <<Ident("p")>>, <<>>) \o OnLoad(Call("m", <<>>)) \o OnTick(<<>>),
     \* no on load block but one inside a function
     Fn("f", OnLoad(<<>>)) \o OnTick(<<>>),
     \* no on tick block but one inside the on load block
     OnLoad(OnTick(<<>>)) >>

\* the files a project may hold under each of its paths
FileStems == <<"a", "b", "c", "d">>

MaxFiles == 3

Paths == {Path(FileStems[i], ".oort") : i \in 1..MaxFiles}

Files(pool) ==
  {[kind |-> "file", source |-> pool[i]] : i \in 1..Len(pool)}
    \cup {[kind |-> "missing", source |-> <<>>], [kind |-> "unreadable", source |-> <<>>]}

\* the descriptors: the load entrypoint is a.oort
Descriptors ==
  {[status |-> "missing", load |-> "", tick |-> "", namespace |-> "", clean |-> TRUE],
   [status |-> "invalid", load |-> "", tick |-> "", namespace |-> "", clean |-> TRUE]}
    \cup {[status |-> "ok", load |-> "a.oort", tick |-> t, namespace |-> "ns",
           clean |-> TRUE] : t \in {"a.oort", "b.oort"}}

\* main starts: nothing is loaded
StartOfMain ==
  /\ pc = "config"
  /\ config = NoConfig
  /\ files_to_process = <<>>
  /\ processed_files = {}
  /\ modules = <<>>
  /\ reads = <<>>
  /\ k = 1
  /\ expanded_modules = <<>>
  /\ emitter = NoEmitter
  /\ outcome = Running
  /\ rt = NoRuntime
  /\ lexer = NoLexer

Init ==
  /\ properties \in Descriptors
  /\ fs \in [Paths -> Files(SourcePool)]
  /\ root_exists \in BOOLEAN
  /\ StartOfMain

Spec == Init /\ [][Next]_vars

\* main runs to its end: a step that can be taken is taken
FairSpec == Spec /\ WF_vars(Next)

\* ------------------------------------------------------------------ emitter inputs
\* The stages after configuration, driven with a configuration whose build
\* section carries debug_message, the attribute the Emitter reads.

Assign(name, value) == <<Ident(name), EQUALS>> \o value

Compare(name, type, op, right) == <<Ident(name), Tok(type, op)>> \o right

If(condition, body) ==
  <<Tok("KW_IF", "if")>> \o condition \o <<LBRACE>> \o body \o <<RBRACE>>

While(condition, body) ==
  <<Tok("KW_WHILE", "while")>> \o condition \o <<LBRACE>> \o body \o <<RBRACE>>

PLUS == Tok("PLUS", "+")

MINUS == Tok("MINUS", "-")

\* x = x - 1
Decrement(name) == Assign(name, <<Ident(name), MINUS, Number(1)>>)

\* x = x + 1
Increment(name) == Assign(name, <<Ident(name), PLUS, Number(1)>>)

\* on load { var x = 5  x = x + 3 }
VarSource ==
  OnLoad(<<Ident("var")>> \o Assign("x", <<Number(5)>>)
           \o Assign("x", <<Ident("x"), PLUS, Number(3)>>))
    \o OnTick(<<>>)

\* The texts of a.oort, the file of both entrypoints.
MainPool ==
  << \* calls of a function of the module, of a function imported by name, of
     \* a built-in command and of a name nothing declares
     ImportName("b.oort", "f") \o Fn("g", Call("say", <<String("g")>>))
       \o OnLoad(Call("g", <<>>) \o Call("f", <<>>) \o Call("say", <<String("hi")>>)
                   \o Call("h", <<>>))
       \o OnTick(Call("g", <<>>)),
     \* a function imported under an alias, and one imported with *
     ImportAs("b.oort", "f", "ff") \o ImportStar("b.oort")
       \o OnLoad(Call("ff", <<>>) \o Call("f", <<>>)) \o OnTick(<<>>),
     \* conditions that compare a variable with a literal
     OnLoad(Assign("hp", <<Number(5)>>)
              \o If(Compare("hp", "LESS", "<", <<Number(10)>>), Call("say", <<String("lt")>>))
              \o If(Compare("hp", "LESS_EQUALS", "<=", <<Number(5)>>), <<>>)
              \o If(Compare("hp", "GREATER", ">", <<Number(5)>>), <<>>)
              \o If(Compare("hp", "GREATER_EQUALS", ">=", <<Number(12)>>), <<>>)
              \o If(Compare("hp", "EQUALS_EQUALS", "==", <<Number(5)>>), <<>>))
       \o OnTick(If(Compare("hp", "LESS", "<", <<Number(0)>>), <<>>)
                   \o If(Compare("hp", "NOT_EQUALS", "!=", <<Number(1)>>), <<>>)
                   \o If(Compare("hp", "LESS", "<", <<Ident("y")>>), <<>>)),
     \* x = 5 then x = x + 3, and other assignments
     OnLoad(Assign("x", <<Number(5)>>) \o Assign("x", <<Ident("x"), PLUS, Number(3)>>))
       \o OnTick(Assign("y", <<Ident("x")>>) \o Assign("y", <<Ident("y"), MINUS, Number(2)>>)
                   \o Assign("z", <<Ident("x"), PLUS, Ident("y")>>)
                   \o Assign("z", <<Ident("x"), Tok("ASTERISK", "*"), Number(2)>>)),
     \* var x = 5 then x = x + 3
     VarSource,
     \* a loop that counts x down from 2
     OnLoad(Assign("x", <<Number(2)>>)
              \o While(Compare("x", "GREATER", ">", <<Number(0)>>),
                       Call("say", <<String("x")>>) \o Decrement("x")))
       \o OnTick(<<>>),
     \* a loop that every tick starts anew, and a loop in a loop
     OnLoad(Assign("x", <<Number(0)>>) \o Assign("y", <<Number(1)>>))
       \o OnTick(While(Compare("x", "LESS", "<", <<Number(2)>>),
                       Increment("x")
                         \o While(Compare("y", "GREATER_EQUALS", ">=", <<Number(1)>>),
                                  Decrement("y")))),
     \* a loop whose condition never changes, one on a variable nothing sets,
     \* one that compares two variables and one whose operator is not lowered
     Fn("loops", While(Compare("n", "EQUALS_EQUALS", "==", <<Number(1)>>), <<>>)
                   \o While(Compare("u", "LESS_EQUALS", "<=", <<Number(3)>>), <<>>)
                   \o While(Compare("n", "LESS", "<", <<Ident("m")>>), Increment("n"))
                   \o While(Compare("n", "NOT_EQUALS", "!=", <<Number(0)>>), <<>>))
       \o OnLoad(Assign("n", <<Number(1)>>) \o Assign("m", <<Number(3)>>)
                   \o Call("loops", <<>>))
       \o OnTick(<<>>),
     \* statements of the module before its load handler
     Assign("x", <<Number(1)>>) \o Call("say", <<String("top")>>)
       \o OnLoad(Call("say", <<String("load")>>) \o Assign("x", <<Number(2)>>))
       \o OnTick(<<>>),
     \* a macro called at the top level of the module, in a function and in a
     \* nested block, and a macro whose body calls a macro
     Macro("m", <<Ident("p")>>, Call("say", <<Ident("p")>>))
       \o Macro("twice", <<>>, Call("m", <<String("a")>>) \o Call("m", <<String("b")>>))
       \o Call("m", <<String("top")>>)
       \o Fn("g", Call("m", <<String("in")>>))
       \o OnLoad(If(Compare("x", "GREATER", ">", <<Number(0)>>), Call("m", <<String("deep")>>)))
       \o OnTick(Call("twice", <<>>)),
     \* macros of another module, imported by name and under an alias
     ImportName("b.oort", "m") \o ImportAs("b.oort", "m", "mm")
       \o OnLoad(Call("m", <<String("x")>>)) \o OnTick(Call("mm", <<String("y")>>)),
     \* loops at the top level of the module, before its first handler and
     \* after its last
     While(Compare("x", "LESS", "<", <<Number(1)>>), Increment("x"))
       \o OnLoad(Assign("y", <<Number(1)>>)) \o OnTick(<<>>)
       \o While(Compare("y", "GREATER", ">", <<Number(0)>>), Decrement("y")),
     \* a macro of one parameter called with two arguments in a function
     Macro("m", <<Ident("p")>>, Call("say", <<Ident("p")>>))
       \o Fn("g", Call("m", <<String("a"), COMMA, String("b")>>)) \o Handlers,
     \* a macro of one parameter called with no argument at the top level
     Macro("m", <<Ident("p")>>, Call("say", <<Ident("p")>>))
       \o Call("m", <<>>) \o Handlers,
     \* two functions of one name at the top level
     Fn("f", <<>>) \o Fn("f", <<>>) \o Handlers,
     \* two functions of one name in a block, and a function of that name in
     \* another block
     OnLoad(Fn("f", <<>>) \o Assign("x", <<Number(1)>>) \o Fn("f", <<>>))
       \o OnTick(Fn("f", <<>>)),
     \* a variable of the top level assigned again there and in the blocks
     \* of a function, a condition, a loop and a handler; functions of one
     \* name in two blocks
     Assign("x", <<Number(1)>>) \o Assign("x", <<Number(2)>>)
       \o Fn("g", Assign("x", <<Number(3)>>)
                    \o If(Compare("x", "GREATER", ">", <<Number(0)>>),
                          Assign("x", <<Number(4)>>) \o Assign("x", <<Number(5)>>))
                    \o While(Compare("x", "LESS", "<", <<Number(0)>>),
                             Assign("x", <<Number(6)>>)))
       \o OnLoad(Assign("x", <<Number(7)>>) \o Fn("h", <<>>))
       \o OnTick(Fn("h", <<>>)),
     \* a macro and a function of a module imported with *
     \* (and a loop in a condition, before another condition)
     ImportStar("b.oort")
       \o OnLoad(Call("m", <<String("x")>>) \o Call("f", <<>>))
       \o OnTick(If(Compare("x", "GREATER", ">", <<Ident("y")>>),
                    <<Tok("KW_FOR", "for"), Ident("entity"), Ident("e"), Tok("KW_IN", "in"),
                      Tok("SELECTOR", "@a"), LBRACE, RBRACE>>)
                   \o If(Compare("y", "GREATER", ">", <<Ident("x")>>), <<>>)),
     \* two on load blocks, and a function called on_tick
     OnLoad(Call("say", <<String("one")>>)) \o OnLoad(Call("say", <<String("two")>>))
       \o Fn("on_tick", Call("say", <<String("fn")>>))
       \o OnTick(Call("say", <<String("tick")>>)),
     \* a macro whose parameters are an assignment's target, a function's
     \* name and parameter and a loop's variable in its body
     Macro("m", <<Ident("p"), COMMA, Ident("q"), COMMA, Ident("f"), COMMA, Ident("v")>>,
           Assign("p", <<Ident("q")>>)
             \o <<Tok("KW_FN", "fn"), Ident("f"), LPAREN, Ident("f"), RPAREN, LBRACE, RBRACE>>
             \o <<Tok("KW_FOR", "for"), Ident("entity"), Ident("v"), Tok("KW_IN", "in"),
                  Tok("SELECTOR", "@a"), LBRACE, RBRACE>>)
       \o OnLoad(Call("m", <<Ident("x"), COMMA, Number(5), COMMA, Ident("g"), COMMA,
                             Ident("e")>>))
       \o OnTick(<<>>),
     \* a macro called with an argument that is the name of its other parameter
     Macro("s", <<Ident("a"), COMMA, Ident("b")>>,
           Assign("x", <<Ident("a")>>) \o Assign("y", <<Ident("b")>>)
             \o If(Compare("a", "GREATER", ">", <<Ident("b")>>),
                   Assign("z", <<Ident("a"), PLUS, Ident("b")>>)))
       \o OnLoad(Call("s", <<Ident("b"), COMMA, Number(1)>>))
       \o OnTick(Call("say", <<String("t")>>) \o Call("s", <<Ident("y"), COMMA, Ident("x")>>)),
     \* `=` after the value of an assignment, in a condition and in an argument
     OnLoad(Assign("x", <<Ident("y"), EQUALS, Number(3)>>)
              \o If(<<Ident("x"), EQUALS, Number(1)>>, <<>>))
       \o OnTick(Call("say", <<Ident("x"), EQUALS, Ident("y")>>)),
     \* a call whose callee is in parentheses: (f)(x)
     Fn("f", <<>>)
       \o OnLoad(<<LPAREN, Ident("f"), RPAREN, LPAREN, Ident("x"), RPAREN>>) \o OnTick(<<>>),
     \* a call whose callee is a call: f(x)(y)
     Fn("f", <<>>)
       \o OnLoad(Call("f", <<Ident("x")>>) \o <<LPAREN, Ident("y"), RPAREN>>) \o OnTick(<<>>),
     \* a call whose callee is a number: 1(x)
     OnLoad(<<Number(1), LPAREN, Ident("x"), RPAREN>>) \o OnTick(<<>>),
     \* a difference whose right side is the target, and one whose left side
     \* is a literal
     OnLoad(Assign("x", <<Number(1)>>) \o Assign("y", <<Number(3)>>)
              \o Assign("x", <<Ident("y"), MINUS, Ident("x")>>)
              \o Assign("z", <<Number(5), MINUS, Ident("y")>>))
       \o OnTick(<<>>),
     \* a macro whose body holds a block, called before another handler
     Macro("m", <<>>, If(Compare("x", "GREATER", ">", <<Number(0)>>), Assign("x", <<Number(0)>>)))
       \o OnLoad(Call("m", <<>>)) \o OnTick(Call("say", <<String("t")>>)) >>

\* the texts of b.oort, the file a.oort imports from
LibraryPool ==
  << Fn("f", Call("say", <<String("f")>>)) \o Macro("m", <<Ident("p")>>, Call("say", <<Ident("p")>>)),
     Fn("f", <<>>) \o Macro("m", <<Ident("p")>>, <<>>)
       \o OnLoad(If(Compare("x", "LESS", "<", <<Ident("y")>>), <<>>)) >>

\* the values of build.debug_message
DebugMessages == {"False", "True"}

\* the descriptors of the emitter's projects: build.clean is set or not
EmitDescriptors ==
  {[status |-> "ok", load |-> "a.oort", tick |-> "a.oort", namespace |-> "ns",
    clean |-> clean] : clean \in BOOLEAN}

\* the emitter's configuration
EmitterConfig(descriptor, debug_message) ==
  [from_project_dir(descriptor) EXCEPT !.build.debug_message = debug_message]

EmitInit ==
  /\ properties \in EmitDescriptors
  /\ \E i \in 1..Len(MainPool), j \in 1..Len(LibraryPool) :
       fs = [p \in Paths |->
               IF p = Path("a", ".oort") THEN [kind |-> "file", source |-> MainPool[i]]
               ELSE IF p = Path("b", ".oort") THEN [kind |-> "file", source |-> LibraryPool[j]]
               ELSE [kind |-> "missing", source |-> <<>>]]
  /\ root_exists \in BOOLEAN
  /\ pc = "resolve"
  /\ \E debug_message \in DebugMessages :
       config = EmitterConfig(properties, debug_message)
  /\ files_to_process = <<>>
  /\ processed_files = {}
  /\ modules = <<>>
  /\ reads = <<>>
  /\ k = 1
  /\ expanded_modules = <<>>
  /\ emitter = NoEmitter
  /\ outcome = Running
  /\ rt = NoRuntime
  /\ lexer = NoLexer

EmitNext ==
  \/ ResolveStart
  \/ ResolveStep
  \/ ResolveEnd
  \/ BuildSymbols
  \/ Expand
  \/ Emit
  \/ RunLoad
  \/ RunTick

EmitSpec == EmitInit /\ [][EmitNext]_vars

\* ------------------------------------------------------------------ lexer inputs

\* the characters of the texts: of a comment, a string, a line end, a blank,
\* operators of one and two characters (`!` alone is matched by MISMATCH
\* only), a keyword and identifiers
Alphabet == {"#", "\"", "\n", " ", "=", "!", "i", "n"}

MaxText == 4

Texts == UNION {[1..n -> Alphabet] : n \in 0..MaxText}

LexInit ==
  /\ pc = "lex"
  /\ lexer \in {Lexer(text) : text \in Texts}
  /\ properties = [status |-> "ok", load |-> "a.oort", tick |-> "a.oort",
                   namespace |-> "ns", clean |-> TRUE]
  /\ fs = [p \in Paths |-> [kind |-> "missing", source |-> <<>>]]
  /\ root_exists = FALSE
  /\ config = NoConfig
  /\ files_to_process = <<>>
  /\ processed_files = {}
  /\ modules = <<>>
  /\ reads = <<>>
  /\ k = 1
  /\ expanded_modules = <<>>
  /\ emitter = NoEmitter
  /\ outcome = Running
  /\ rt = NoRuntime

LexNext ==
  \/ TokenizeStep
  \/ TokenizeEnd

LexSpec == LexInit /\ [][LexNext]_vars

\* ------------------------------------------------------------------ properties

\* the keys of a module map
Keys(map) == {map[i].path : i \in 1..Len(map)}

NoDuplicates(seq) == \A i, j \in 1..Len(seq) : seq[i] = seq[j] => i = j

\* the effect on the file system that writes path
Written(em, path) ==
  \E i \in 1..Len(em.log) : em.log[i].op = "write" /\ em.log[i].path = path

\* the files the import statements of a source text name: the string after
\* each 'from'
ImportedPaths(source) ==
  {ResolvePath(source[i + 1].value) :
     i \in {j \in 1..(Len(source) - 1) :
              source[j].type = "KW_FROM" /\ source[j + 1].type = "STRING"}}

\* the files that paths reach through import statements
RECURSIVE Reachable(_, _)
Reachable(files, paths) ==
  With(paths \cup UNION {ImportedPaths(FileAt(files, p).source) : p \in paths},
       LAMBDA more : IF more = paths THEN paths ELSE Reachable(files, more))

Entrypoints == {config.entrypoints.load, config.entrypoints.tick}

\* discover_and_parse_all has returned the map
ResolutionReturned ==
  \/ pc \in {"symbols1", "expand", "symbols2", "emit"}
  \/ pc = "end" /\ outcome.stage \notin {"config", "resolve_loop"}

\* C1: a build whose configuration loads and whose modules resolve, pass both
\* symbol passes and expand reaches the emitter, and the emitter stage ends
\* in success with pack.mcmeta, load.json, tick.json and the function file of
\* the load handler written.
C1_BuildSucceeds ==
  (pc = "end" /\ outcome.stage = "emit") =>
    /\ outcome.status = "success"
    /\ Written(emitter, "pack.mcmeta")
    /\ Written(emitter, "data/minecraft/tags/functions/load.json")
    /\ Written(emitter, "data/minecraft/tags/functions/tick.json")
    /\ Written(emitter,
               McfunctionFile(config, oort_path_to_function_base(config.entrypoints.load)
                                        \o "/on_load"))

\* the error kinds the build recognizes
RecognizedErrors ==
  {"ConfigError", "LexerError", "ParserError", "ResolverError", "SymbolError",
   "MacroError", "EmitterError"}

\* C2: a build that an error of a recognized kind ends, whatever the stage
\* that raised it, ends with "Build failed" and exit status 1, the exception
\* not leaving main.
C2_RecognizedErrorsExit1 ==
  (pc = "end" /\ outcome.err \in RecognizedErrors) => outcome.status = "exit1"

\* a file the entrypoints reach that cannot be read, lexed or parsed, or an
\* entrypoint without its handler
ResolutionFault ==
  \/ \E p \in Reachable(fs, Entrypoints) :
        \/ FileAt(fs, p).kind # "file"
        \/ parse_file(p, FileAt(fs, p).source).err # ""
  \/ ~has_on_block(parse_file(config.entrypoints.load,
                              FileAt(fs, config.entrypoints.load).source).module, "load")
  \/ ~has_on_block(parse_file(config.entrypoints.tick,
                              FileAt(fs, config.entrypoints.tick).source).module, "tick")

\* C9: module resolution terminates on every import graph, cyclic ones and
\* self-imports included; no path is twice in the module map, and resolution
\* fails only for a fault of a reachable file or of an entrypoint, never for
\* a cycle.
C9_ResolutionTerminates ==
  /\ (pc = "resolve_loop") ~> (pc # "resolve_loop")
  /\ [](NoDuplicates([i \in 1..Len(modules) |-> modules[i].path]))
  /\ []((pc = "end" /\ outcome.stage = "resolve_loop") => ResolutionFault)

\* resolution has returned the map of a project in which two modules import
\* each other
C9_CycleResolved ==
  /\ pc = "symbols1"
  /\ \E p, q \in Keys(modules) :
       /\ p # q
       /\ q \in ImportedPaths(FileAt(fs, p).source)
       /\ p \in ImportedPaths(FileAt(fs, q).source)

\* C10: when discover_and_parse_all returns, the keys of the map are exactly
\* the files the entrypoints reach through import statements, and every file
\* was read and parsed exactly once; no file is ever read twice.
C10_MapIsClosureReadOnce ==
  /\ NoDuplicates(reads)
  /\ ResolutionReturned =>
       /\ Keys(modules) = Reachable(fs, Entrypoints)
       /\ {reads[i] : i \in 1..Len(reads)} = Keys(modules)

\* the map is returned for a project whose two entrypoints are one file and
\* in which a third file is imported by two modules
C10_SharedImportResolved ==
  /\ pc = "symbols1"
  /\ config.entrypoints.load = config.entrypoints.tick
  /\ \E p, q, r \in Keys(modules) :
       /\ p # q /\ p # r /\ q # r
       /\ r \in ImportedPaths(FileAt(fs, p).source)
       /\ r \in ImportedPaths(FileAt(fs, q).source)

\* ------------------------------------------------------------------ properties of the stages

\* every statement of a node, at any depth; withMacros says whether the bodies
\* of macro declarations and the else blocks count (the emitter visits neither)
RECURSIVE StatementsIn(_, _)
StatementsIn(node, withMacros) ==
  CASE node.kind \in {"Module", "Block"} ->
         Flatten([i \in 1..Len(node.statements) |->
                    <<node.statements[i]>> \o StatementsIn(node.statements[i], withMacros)])
    [] node.kind \in {"FunctionDeclaration", "OnBlock", "ForStatement", "WhileStatement"} ->
         StatementsIn(node.body, withMacros)
    [] node.kind = "MacroDeclaration" ->
         IF withMacros THEN StatementsIn(node.body, withMacros) ELSE <<>>
    [] node.kind = "IfStatement" ->
         StatementsIn(node.if_body, withMacros)
           \o (IF withMacros /\ node.else_body # NoNode
               THEN StatementsIn(node.else_body, withMacros) ELSE <<>>)
    [] OTHER -> <<>>

\* the module of path declares, at its top level, a function or macro (kind)
\* called name
Declares(map, path, kind, name) ==
  /\ InMap(map, path)
  /\ \E i \in 1..Len(ModuleAt(map, path).statements) :
       /\ ModuleAt(map, path).statements[i].kind = kind
       /\ ModuleAt(map, path).statements[i].name.kind = "Identifier"
       /\ ModuleAt(map, path).statements[i].name.name = name

\* the module imports name from the module of path from, under the name local
Imports(module, from, name, local) ==
  \E i \in 1..Len(module.statements) :
    /\ module.statements[i].kind = "ImportStatement"
    /\ ~module.statements[i].is_star_import
    /\ ResolvePath(module.statements[i].path.value) = from
    /\ \E j \in 1..Len(module.statements[i].items) :
         /\ module.statements[i].items[j].name.name = name
         /\ ImportItemName(module.statements[i].items[j]).name = local

\* in the module of path, callee names a macro: one the module declares, or
\* one a named import brings from the module that declares it
NamesMacro(map, path, callee) ==
  \/ Declares(map, path, "MacroDeclaration", callee)
  \/ \E i \in 1..Len(map), j \in 1..Len(map) :
       /\ map[i].path = path
       /\ \E d \in 1..Len(map[j].module.statements) :
            /\ map[j].module.statements[d].kind = "MacroDeclaration"
            /\ Imports(map[i].module, map[j].path,
                       map[j].module.statements[d].name.name, callee)

\* every module of the map has been expanded
ExpansionDone ==
  \/ pc \in {"symbols2", "emit"}
  \/ pc = "end" /\ outcome.stage \in {"symbols2", "emit"}

\* C3: once every module is expanded, no module holds a macro declaration, and
\* no module holds, at any depth, a call statement whose callee names a macro
\* of the module or a macro imported by name.
C3_NoMacroRemains ==
  ExpansionDone =>
    \A i \in 1..Len(expanded_modules) :
      \A stmt \in {StatementsIn(expanded_modules[i].module, TRUE)[n] :
                     n \in 1..Len(StatementsIn(expanded_modules[i].module, TRUE))} :
        /\ stmt.kind # "MacroDeclaration"
        /\ ~(/\ stmt.kind = "CallStatement"
             /\ stmt.expression.callee.kind = "Identifier"
             /\ NamesMacro(expanded_modules, expanded_modules[i].path,
                           stmt.expression.callee.name))

\* the datapack is written
Emitted == pc = "end" /\ outcome.status = "success"

\* the lines of the function file written last under name
FileOf(name) == FunctionLines(emitter.log, name)

\* the functions of the datapack
Functions == {emitter.log[i].function : i \in 1..Len(emitter.log)} \ {""}

Lines(name) == {FileOf(name)[i] : i \in 1..Len(FileOf(name))}

\* the function or event blocks of a module's top level, with the names of
\* their function files
Bodies(entry) ==
  {[body |-> entry.module.statements[i].body,
    function |-> config.package.namespace \o ":" \o oort_path_to_function_base(entry.path)
                   \o "/" \o (IF entry.module.statements[i].kind = "OnBlock"
                              THEN "on_" \o entry.module.statements[i].event_type
                              ELSE entry.module.statements[i].name.name)] :
     i \in {n \in 1..Len(entry.module.statements) :
              entry.module.statements[n].kind \in {"FunctionDeclaration", "OnBlock"}}}

\* the paths of the modules from which callee, a name of the module of path,
\* is a user function: the module itself when it declares the function, a
\* module it imports the function from by name
FunctionHomes(map, path, callee) ==
  {map[j].path :
     j \in {n \in 1..Len(map) :
              /\ Declares(map, map[n].path, "FunctionDeclaration", callee)
              /\ \/ map[n].path = path
                 \/ Imports(ModuleAt(map, path), map[n].path, callee, callee)}}

UnresolvedLine(callee) ==
  <<"#", "ERROR:", "Unresolved", "function", "call", "to", "'" \o callee \o "'">>

\* C4: in the file of a function or event block, a call statement of the body
\* whose callee is no built-in and is a function of the module, or one the
\* module imports by name, is the line `function <namespace>:<path of the
\* declaring module>/<name>`; the comment `# ERROR: Unresolved function call`
\* is written only for a callee that names no user function.
C4_CallsNameDeclaringModule ==
  Emitted =>
    \A i \in 1..Len(expanded_modules) :
      \A b \in Bodies(expanded_modules[i]) :
        \A n \in 1..Len(b.body.statements) :
          (/\ b.body.statements[n].kind = "CallStatement"
           /\ b.body.statements[n].expression.callee.name \notin BUILTIN_COMMANDS)
          => \E callee \in {b.body.statements[n].expression.callee.name} :
             \E homes \in {FunctionHomes(expanded_modules, expanded_modules[i].path, callee)} :
               /\ \A home \in homes :
                    <<"function", config.package.namespace \o ":"
                                    \o oort_path_to_function_base(home) \o "/" \o callee>>
                      \in Lines(b.function)
               /\ UnresolvedLine(callee) \in Lines(b.function) => homes = {}

\* the scores on which a range and a comparison are compared
Scores == (0 - 2)..(MaxNumber + 2)

\* s op n in the source language
Holds(s, op, n) ==
  CASE op = "<" -> s < n
    [] op = "<=" -> s <= n
    [] op = ">" -> s > n
    [] op = ">=" -> s >= n
    [] op = "==" -> s = n

\* the range the claim gives for `v op N`
RangeText(op, n) ==
  CASE op = "<" -> ".." \o ToString(n - 1)
    [] op = "<=" -> ".." \o ToString(n)
    [] op = ">" -> ToString(n + 1) \o ".."
    [] op = ">=" -> ToString(n) \o ".."
    [] op = "==" -> ToString(n)

\* a condition `v op N` with op one of <, <=, >, >=, ==
IsLiteralComparison(condition) ==
  /\ condition.kind = "BinaryExpr"
  /\ condition.left.kind = "Identifier"
  /\ condition.right.kind = "NumberLiteral"
  /\ condition.op \in {"<", "<=", ">", ">=", "=="}

\* line is `execute if score v oort_vars matches R run function <aux>`, R
\* being the range of the claim and holding exactly the scores s with s op N
TestsLiteral(line, condition) ==
  /\ Len(line) = 10
  /\ SubSeq(line, 1, 6)
       = <<"execute", "if", "score", condition.left.name, VARS_OBJECTIVE, "matches">>
  /\ line[7] = RangeText(condition.op, condition.right.value)
  /\ \A s \in Scores : InRange(line[7], s) <=> Holds(s, condition.op, condition.right.value)
  /\ SubSeq(line, 8, 9) = <<"run", "function">>

\* C5: for a conditional `if v op N` of a function or event body, N an integer
\* literal and op one of <, <=, >, >=, ==, the file of the body holds the line
\* `execute if score v oort_vars matches R run function <aux>`, <aux> a
\* function of the datapack and R the range ..N-1, ..N, N+1.., N.. or N, which
\* holds exactly the scores s with s op N.
C5_RangeOfLiteralComparison ==
  Emitted =>
    \A i \in 1..Len(expanded_modules) :
      \A b \in Bodies(expanded_modules[i]) :
        \A n \in 1..Len(b.body.statements) :
          (/\ b.body.statements[n].kind = "IfStatement"
           /\ IsLiteralComparison(b.body.statements[n].condition))
          => \E line \in Lines(b.function) :
               /\ TestsLiteral(line, b.body.statements[n].condition)
               /\ line[10] \in Functions

\* `if hp < 10` has been lowered to a test of the range ..9
C5_LessThanTenEmitted ==
  /\ Emitted
  /\ <<"execute", "if", "score", "hp", VARS_OBJECTIVE, "matches", "..9", "run", "function",
       "ns:a/if_body_1">> \in Lines("ns:a/on_load")

\* `scoreboard players operation t oort_vars = l oort_vars`
CopyLine(t, l) ==
  <<"scoreboard", "players", "operation", t, VARS_OBJECTIVE, "=", l, VARS_OBJECTIVE>>

\* an assignment `t = l + N` or `t = l - N`
IsLiteralSum(value) ==
  /\ value.kind = "BinaryExpr"
  /\ value.op \in {"+", "-"}
  /\ value.left.kind = "Identifier"
  /\ value.right.kind = "NumberLiteral"

\* C6: the build of the project whose load handler is `var x = 5` followed by
\* `x = x + 3` succeeds, and the score commands of the handler's file are the
\* three lines set x 5, copy x to x, add 3 to x, in this order; and in every
\* file of a function or event body an assignment of the body from an integer
\* literal is a `set` line, an assignment `t = l + N` or `t = l - N` a copy line
\* followed by an `add` or `remove` line.
C6_VarThenSum ==
  /\ (pc = "end" /\ fs[Path("a", ".oort")].source = VarSource) =>
       /\ outcome.status = "success"
       /\ SelectSeq(FileOf("ns:a/on_load"),
                    LAMBDA line : SubSeq(line, 1, 2) = <<"scoreboard", "players">>)
            = <<<<"scoreboard", "players", "set", "x", VARS_OBJECTIVE, "5">>,
                CopyLine("x", "x"),
                <<"scoreboard", "players", "add", "x", VARS_OBJECTIVE, "3">>>>
  /\ Emitted =>
       \A i \in 1..Len(expanded_modules) :
         \A b \in Bodies(expanded_modules[i]) :
           \A stmt \in {b.body.statements[n] :
                          n \in {m \in 1..Len(b.body.statements) :
                                   b.body.statements[m].kind = "AssignmentStatement"}} :
             /\ stmt.value.kind = "NumberLiteral" =>
                  <<"scoreboard", "players", "set", stmt.target.name, VARS_OBJECTIVE,
                    ToString(stmt.value.value)>> \in Lines(b.function)
             /\ IsLiteralSum(stmt.value) =>
                  \E h \in 1..(Len(FileOf(b.function)) - 1) :
                    /\ FileOf(b.function)[h] = CopyLine(stmt.target.name, stmt.value.left.name)
                    /\ FileOf(b.function)[h + 1]
                         = <<"scoreboard", "players",
                             IF stmt.value.op = "+" THEN "add" ELSE "remove",
                             stmt.target.name, VARS_OBJECTIVE,
                             ToString(stmt.value.right.value)>>

\* C8: the file written for the `on load` block of a module begins with the
\* line `scoreboard objectives add oort_vars dummy`, every line lowered from
\* the block's body coming after it.
C8_ObjectiveIsFirstLine ==
  Emitted =>
    \A i \in 1..Len(expanded_modules) :
      has_on_block(expanded_modules[i].module, "load") =>
        \E file \in {FileOf(config.package.namespace \o ":"
                              \o oort_path_to_function_base(expanded_modules[i].path)
                              \o "/on_load")} :
          /\ file # <<>>
          /\ file[1] = <<"scoreboard", "objectives", "add", VARS_OBJECTIVE, "dummy">>

\* the while loops of the datapack, by the names of their check and body
\* functions
Loops ==
  {loop \in {[path |-> expanded_modules[i].path,
              check |-> config.package.namespace \o ":"
                          \o WhileBase(expanded_modules[i].path, n) \o "_check",
              body |-> config.package.namespace \o ":"
                         \o WhileBase(expanded_modules[i].path, n) \o "_body"] :
               i \in 1..Len(expanded_modules), n \in 1..emitter.function_count} :
     loop.check \in Functions}

\* the conditions of the while statements the emitter visits in a module
WhileConditions(module) ==
  {StatementsIn(module, FALSE)[n].condition :
     n \in {m \in 1..Len(StatementsIn(module, FALSE)) :
              StatementsIn(module, FALSE)[m].kind = "WhileStatement"}}

\* a condition `v op w` of two variables with an operator the runtime compares
\* scores by
IsVariableComparison(condition) ==
  /\ condition.kind = "BinaryExpr"
  /\ condition.left.kind = "Identifier"
  /\ condition.right.kind = "Identifier"
  /\ condition.op \in {"<", "<=", ">", ">="}

\* line is a command that can run a function
RunsFunction(line) ==
  \/ Len(line) = 2 /\ line[1] = "function"
  \/ /\ Len(line) = 10
     /\ SubSeq(line, 1, 3) = <<"execute", "if", "score">>
     /\ \E s \in Scores : InRange(line[7], s)
  \/ /\ Len(line) = 11
     /\ SubSeq(line, 1, 3) = <<"execute", "if", "score">>
     /\ \E a, b \in {0, 1} : ScoreCompare(a, line[6], b)

\* line runs the function body if the condition holds and runs nothing if not
RunsOnlyIf(line, condition, body) ==
  IF IsLiteralComparison(condition)
  THEN TestsLiteral(line, condition) /\ line[10] = body
  ELSE IF IsVariableComparison(condition)
  THEN /\ line = <<"execute", "if", "score", condition.left.name, VARS_OBJECTIVE,
                   condition.op, condition.right.name, VARS_OBJECTIVE,
                   "run", "function", body>>
       /\ \A a, b \in Scores :
            ScoreCompare(a, condition.op, b) <=> Holds(a, condition.op, b)
  ELSE ~RunsFunction(line)

\* the places of line: <<function, number of the line>> in the datapack, and
\* <<"", number of the line>> in what the emitter has not written
Places(line) ==
  {place \in UNION {{<<f, n>> : n \in 1..Len(FileOf(f))} : f \in Functions} :
     FileOf(place[1])[place[2]] = line}
    \cup {<<"", n>> : n \in {m \in 1..Len(emitter.output_lines) :
                                 emitter.output_lines[m] = line}}

\* the lowering of a loop: the check function is a comment and one command
\* that runs the body only if a while condition of the module holds, the body
\* function ends with `schedule function <check> 1t`, and the emitter has put
\* one line `function <check>` (the line of a loop at a module's top level
\* goes to the file written next, or stays unwritten)
LoopLowered(loop) ==
  /\ Len(FileOf(loop.check)) = 2
  /\ FileOf(loop.check)[1][1] = "#"
  /\ \E condition \in WhileConditions(ModuleAt(expanded_modules, loop.path)) :
       RunsOnlyIf(FileOf(loop.check)[2], condition, loop.body)
  /\ FileOf(loop.body) # <<>>
  /\ FileOf(loop.body)[Len(FileOf(loop.body))]
       = <<"schedule", "function", loop.check, "1t">>
  /\ Cardinality(Places(<<"function", loop.check>>)) = 1

\* what the runtime recorded at place i
Ran(i, kind, function) ==
  rt.trace[i].kind = kind /\ rt.trace[i].function = function

\* the place at which the body entered at place i is left
BodyLeftAt(loop, i) ==
  CHOOSE j \in (i + 1)..Len(rt.trace) :
    /\ Ran(j, "exit", loop.body)
    /\ \A m \in (i + 1)..(j - 1) : ~Ran(m, "exit", loop.body)

\* the run of a loop: the body is entered only right after a test of the
\* check function that held; what the body does last is to schedule the check
\* for the next tick, and it schedules it once; a test of the check function
\* that does not hold is the end of the check function; and nothing but the
\* body schedules the check
LoopRuns(loop) ==
  \A i \in 1..Len(rt.trace) :
    /\ Ran(i, "enter", loop.body) =>
         /\ i > 1
         /\ rt.trace[i - 1] = [kind |-> "test", function |-> loop.check,
                               target |-> loop.body, held |-> TRUE, at |-> rt.trace[i].at]
         /\ \E j \in {BodyLeftAt(loop, i)} :
              /\ rt.trace[j - 1] = [kind |-> "schedule", function |-> loop.body,
                                    target |-> loop.check, held |-> TRUE,
                                    at |-> rt.trace[i].at + 1]
              /\ \A m \in i..(j - 2) :
                   ~(rt.trace[m].kind = "schedule" /\ rt.trace[m].target = loop.check)
    /\ (Ran(i, "test", loop.check) /\ ~rt.trace[i].held) =>
         /\ i < Len(rt.trace)
         /\ Ran(i + 1, "exit", loop.check)
    /\ (rt.trace[i].kind = "schedule" /\ rt.trace[i].target = loop.check) =>
         rt.trace[i].function = loop.body

RECURSIVE Depth(_, _)
Depth(source, i) ==
  IF i <= 1 THEN 0
  ELSE Depth(source, i - 1)
         + (IF source[i - 1].type = "LBRACE" THEN 1
            ELSE IF source[i - 1].type = "RBRACE" THEN 0 - 1 ELSE 0)

\* the places of `on <event>` in a source text
HandlerPlaces(source, event_type) ==
  {i \in 1..(Len(source) - 1) :
     /\ source[i].type = "KW_ON"
     /\ source[i + 1].value = event_type}

\* the text has an `on <event>` block outside every block
HasTopLevelHandler(source, event_type) ==
  \E i \in HandlerPlaces(source, event_type) : Depth(source, i) = 0

\* an entrypoint lacks its handler
LacksHandler ==
  \/ ~HasTopLevelHandler(FileAt(fs, config.entrypoints.load).source, "load")
  \/ ~HasTopLevelHandler(FileAt(fs, config.entrypoints.tick).source, "tick")

\* the file at the head of the worklist cannot be read or parsed
HeadFault ==
  /\ Head(files_to_process) \notin processed_files
  /\ \/ FileAt(fs, Head(files_to_process)).kind # "file"
     \/ parse_file(Head(files_to_process),
                   FileAt(fs, Head(files_to_process)).source).err # ""

\* C11: the entrypoints are validated only once the worklist is empty: while
\* it holds a path resolution ends only for a fault of the file at its head;
\* once it is empty resolution raises ResolverError exactly when the text of
\* the load entrypoint has no `on load` block outside every block or the text
\* of the tick entrypoint has no such `on tick` block, whatever the blocks of
\* other modules and the blocks nested in the entrypoint's statements.
C11_EntrypointsValidatedAtEnd ==
  [][pc = "resolve_loop" =>
       /\ (files_to_process # <<>> /\ pc' # "resolve_loop") =>
            (pc' = "end" /\ HeadFault)
       /\ files_to_process = <<>> =>
            IF LacksHandler
            THEN pc' = "end" /\ outcome'.err = "ResolverError" /\ outcome'.status = "exit1"
            ELSE pc' = "symbols1" /\ outcome' = outcome]_vars

\* validation has refused a project all of whose files were read and parsed:
\* the on load block of the load entrypoint is inside a function, and another
\* module of the map has both handlers at its top level
C11_NestedHandlerRefused ==
  /\ pc = "end"
  /\ outcome.stage = "resolve_loop"
  /\ files_to_process = <<>>
  /\ Keys(modules) = Reachable(fs, Entrypoints)
  /\ \E i \in HandlerPlaces(FileAt(fs, config.entrypoints.load).source, "load") :
       Depth(FileAt(fs, config.entrypoints.load).source, i) > 0
  /\ \E p \in Keys(modules) \ Entrypoints :
       /\ HasTopLevelHandler(FileAt(fs, p).source, "load")
       /\ HasTopLevelHandler(FileAt(fs, p).source, "tick")

\* ------------------------------------------------------------------ properties of expansion

\* the parameter counts of the macros callee names in the module of path
MacroArities(map, path, callee) ==
  {Len(ModuleAt(map, path).statements[d].params) :
     d \in {e \in 1..Len(ModuleAt(map, path).statements) :
              /\ ModuleAt(map, path).statements[e].kind = "MacroDeclaration"
              /\ ModuleAt(map, path).statements[e].name.name = callee}}
    \cup UNION {{Len(map[j].module.statements[d].params) :
                   d \in {e \in 1..Len(map[j].module.statements) :
                            /\ map[j].module.statements[e].kind = "MacroDeclaration"
                            /\ Imports(ModuleAt(map, path), map[j].path,
                                       map[j].module.statements[e].name.name, callee)}} :
                j \in 1..Len(map)}

\* the call statements of module that call a macro, at any depth
MacroCalls(map, path, module) ==
  {stmt \in {StatementsIn(module, TRUE)[n] : n \in 1..Len(StatementsIn(module, TRUE))} :
     /\ stmt.kind = "CallStatement"
     /\ stmt.expression.callee.kind = "Identifier"
     /\ NamesMacro(map, path, stmt.expression.callee.name)}

\* call passes a number of arguments its macro does not declare
Mismatched(map, path, call) ==
  Len(call.expression.arguments)
    \notin MacroArities(map, path, call.expression.callee.name)

\* C12: expanding a module in which a call passes m arguments to a macro
\* (of the module, or imported by name) declared with n parameters, m # n,
\* raises MacroError naming n and m; expanding a module in which every call
\* of a macro passes as many arguments as the macro declares raises nothing
\* and leaves no call of a macro.
C12_ArityChecked ==
  pc = "expand" =>
    \E r \in {expand(modules, k)} :
    \E calls \in {MacroCalls(modules, modules[k].path, modules[k].module)} :
      IF \E call \in calls : Mismatched(modules, modules[k].path, call)
      THEN /\ r.error.err = "MacroError"
           /\ \E call \in calls :
                /\ Mismatched(modules, modules[k].path, call)
                /\ r.error.got = Len(call.expression.arguments)
                /\ r.error.expects
                     \in MacroArities(modules, modules[k].path, call.expression.callee.name)
      ELSE /\ r.error.err = ""
           /\ MacroCalls(modules, modules[k].path, r.module) = {}

\* the macro declarations that the module of place i imports under the alias
\* local, a name other than their own
AliasedMacros(map, i, local) ==
  UNION {{map[j].module.statements[d] :
            d \in {e \in 1..Len(map[j].module.statements) :
                     /\ map[j].module.statements[e].kind = "MacroDeclaration"
                     /\ map[j].module.statements[e].name.name # local
                     /\ Imports(map[i].module, map[j].path,
                                map[j].module.statements[e].name.name, local)}} :
           j \in 1..Len(map)}

\* the function and event bodies at the top level of a module: the places of
\* their declarations
BodyPlaces(module) ==
  {n \in 1..Len(module.statements) :
     module.statements[n].kind \in {"FunctionDeclaration", "OnBlock"}}

Elements(seq) == {seq[n] : n \in 1..Len(seq)}

\* C13: a call `bar(...)` in a function or event body of a module that
\* imports `foo as bar` from a module declaring `macro foo` is expanded to the
\* body of foo: after expansion the body holds the statements of foo's body
\* with the arguments substituted, and no call of bar.
C13_AliasedMacroExpanded ==
  pc = "expand" =>
    \E r \in {expand(modules, k)} :
      \A n \in BodyPlaces(modules[k].module) :
        \A call \in Elements(modules[k].module.statements[n].body.statements) :
          (/\ call.kind = "CallStatement"
           /\ call.expression.callee.kind = "Identifier")
            => \A decl \in AliasedMacros(modules, k, call.expression.callee.name) :
                 Len(decl.params) = Len(call.expression.arguments) =>
                   /\ r.error.err = ""
                   /\ call \notin Elements(r.module.statements[n].body.statements)
                   /\ Elements(Substitute(decl.body,
                                          ArgMap(decl.params,
                                                 call.expression.arguments)).statements)
                        \subseteq Elements(r.module.statements[n].body.statements)

\* ------------------------------------------------------------------ properties of the symbol table

\* the statement lists the builder visits in a node, each one scope: the
\* module's and those of the function, event, conditional and loop bodies
RECURSIVE StatementLists(_)
StatementLists(node) ==
  CASE node.kind \in {"Module", "Block"} ->
         {node.statements}
           \cup UNION {StatementLists(node.statements[i]) : i \in 1..Len(node.statements)}
    [] node.kind \in {"FunctionDeclaration", "OnBlock", "ForStatement", "WhileStatement"} ->
         StatementLists(node.body)
    [] node.kind = "IfStatement" ->
         StatementLists(node.if_body)
           \cup (IF node.else_body # NoNode THEN StatementLists(node.else_body) ELSE {})
    [] OTHER -> {}

\* the names a statement declares in the scope of its list
DeclaredNames(stmt) ==
  CASE stmt.kind \in {"FunctionDeclaration", "MacroDeclaration"} -> {stmt.name.name}
    [] stmt.kind = "ImportStatement" ->
         {ImportItemName(stmt.items[i]).name : i \in 1..Len(stmt.items)}
    [] OTHER -> {}

\* two functions of one name in one statement list of the module
TwoFunctionsOfOneName(module) ==
  \E list \in StatementLists(module) :
    \E i, j \in 1..Len(list) :
      /\ i < j
      /\ list[i].kind = "FunctionDeclaration"
      /\ list[j].kind = "FunctionDeclaration"
      /\ list[i].name.name = list[j].name.name

\* a declaration of a name that its scope already has: by a declaration or an
\* assignment before it in the list, by two items of one import, or by two
\* parameters of one function
DeclaredTwice(module) ==
  \/ \E list \in StatementLists(module) :
       \E j \in 1..Len(list) :
         \/ \E i \in 1..(j - 1) :
              DeclaredNames(list[j])
                \cap (DeclaredNames(list[i])
                        \cup (IF list[i].kind = "AssignmentStatement"
                              THEN {list[i].target.name} ELSE {})) # {}
         \/ /\ list[j].kind = "ImportStatement"
            /\ ~NoDuplicates([n \in 1..Len(list[j].items) |->
                                ImportItemName(list[j].items[n]).name])
  \/ \E stmt \in Elements(StatementsIn(module, FALSE)) :
       /\ stmt.kind = "FunctionDeclaration"
       /\ \/ ~NoDuplicates([n \in 1..Len(stmt.params) |-> stmt.params[n].name])
          \/ \E n \in 1..Len(stmt.params) :
               \E d \in 1..Len(stmt.body.statements) :
                 stmt.params[n].name \in DeclaredNames(stmt.body.statements[d])

\* C14: building the symbol table of a module raises SymbolError when the
\* module declares two functions of one name in one scope, and raises no
\* SymbolError for assignments: a module in which no declaration repeats a
\* name of its scope builds without SymbolError, however often and in whatever
\* nested block a variable of an enclosing or of the same scope is assigned.
C14_DuplicateFunctionsRaise ==
  pc \in {"symbols1", "symbols2"} =>
    \E map \in {IF pc = "symbols1" THEN modules ELSE expanded_modules} :
    \E r \in {build(map[k].module, map[k].path)} :
      /\ TwoFunctionsOfOneName(map[k].module) => r.err = "SymbolError"
      /\ ~DeclaredTwice(map[k].module) => r.err # "SymbolError"

\* the first symbol pass has raised SymbolError for a module with two
\* functions of one name in one scope
C14_DuplicateRefused ==
  /\ pc = "end"
  /\ outcome.stage = "symbols1"
  /\ outcome.err = "SymbolError"
  /\ TwoFunctionsOfOneName(modules[k].module)

\* the symbol passes have accepted a module that assigns a variable of its
\* top level again at the top level and in a nested block
C14_ReassignmentAccepted ==
  /\ pc = "emit"
  /\ \E list \in StatementLists(expanded_modules[1].module) :
       \E i, j \in 1..Len(expanded_modules[1].module.statements) :
         \E n \in 1..Len(list) :
           /\ i < j
           /\ list # expanded_modules[1].module.statements
           /\ expanded_modules[1].module.statements[i].kind = "AssignmentStatement"
           /\ expanded_modules[1].module.statements[j].kind = "AssignmentStatement"
           /\ expanded_modules[1].module.statements[j].target
                = expanded_modules[1].module.statements[i].target
           /\ list[n].kind = "AssignmentStatement"
           /\ list[n].target = expanded_modules[1].module.statements[i].target

\* the first symbol pass has visited every module
SymbolsBuilt ==
  \/ pc \in {"expand", "symbols2", "emit"}
  \/ pc = "end" /\ outcome.stage \in {"expand", "symbols2", "emit"}

\* C15: after the symbol table of a module is built, the module node, every
\* function, event, conditional and loop body block and every statement of
\* the module, those of its top level included, has a scope.
C15_EveryStatementHasScope ==
  SymbolsBuilt =>
    \A i \in 1..Len(modules) :
      /\ modules[i].module.scope # NoScope
      /\ \A stmt \in Elements(StatementsIn(modules[i].module, FALSE)) :
           /\ stmt.scope # NoScope
           /\ stmt.kind \in {"FunctionDeclaration", "OnBlock", "ForStatement",
                             "WhileStatement"} => stmt.body.scope # NoScope
           /\ stmt.kind = "IfStatement" => stmt.if_body.scope # NoScope

\* ------------------------------------------------------------------ properties of wildcard imports

\* the module imports * from the module of path from
ImportsStar(module, from) ==
  \E i \in 1..Len(module.statements) :
    /\ module.statements[i].kind = "ImportStatement"
    /\ module.statements[i].is_star_import
    /\ ResolvePath(module.statements[i].path.value) = from

\* the names the module of place i has only through `import *`: those that
\* a module it imports with * declares as kind at its top level, that it
\* neither declares itself nor imports by name
StarNames(map, i, kind) ==
  {name \in UNION {{map[j].module.statements[d].name.name :
                      d \in {e \in 1..Len(map[j].module.statements) :
                               map[j].module.statements[e].kind = kind}} :
                     j \in {n \in 1..Len(map) :
                              ImportsStar(map[i].module, map[n].path)}} :
     /\ \A d \in 1..Len(map[i].module.statements) :
          name \notin DeclaredNames(map[i].module.statements[d])}

\* the path of the module that declares the function name, among those the
\* module of place i imports with *
StarHomes(map, i, name) ==
  {map[j].path :
     j \in {n \in 1..Len(map) :
              /\ ImportsStar(map[i].module, map[n].path)
              /\ Declares(map, map[n].path, "FunctionDeclaration", name)}}

\* C16: `from "lib" import *` declares no symbol in the scope of the importing
\* module, and a call, in a function or event body of the importing module,
\* to a macro or function that the imported module declares at its top level
\* is resolved all the same: no call of the macro is left after expansion, and
\* the call of the function is emitted as `function <namespace>:lib/<name>`,
\* not as the comment for an unresolved call.
C16_WildcardResolved ==
  Emitted =>
    \A i \in 1..Len(expanded_modules) :
      /\ \A name \in StarNames(expanded_modules, i, "MacroDeclaration")
                       \cup StarNames(expanded_modules, i, "FunctionDeclaration") :
           ~ScopeHas(expanded_modules[i].scopes[1], name)
      /\ \A b \in Bodies(expanded_modules[i]) :
           \A call \in {stmt \in Elements(b.body.statements) : stmt.kind = "CallStatement"} :
             /\ call.expression.callee.name
                  \notin StarNames(expanded_modules, i, "MacroDeclaration")
             /\ call.expression.callee.name
                  \in StarNames(expanded_modules, i, "FunctionDeclaration") =>
                  /\ UnresolvedLine(call.expression.callee.name) \notin Lines(b.function)
                  /\ \A home \in StarHomes(expanded_modules, i, call.expression.callee.name) :
                       <<"function", config.package.namespace \o ":"
                                       \o oort_path_to_function_base(home) \o "/"
                                       \o call.expression.callee.name>>
                         \in Lines(b.function)

\* ------------------------------------------------------------------ properties of the written files

\* the places of the emitter's log that write a function file
FunctionWrites ==
  {i \in 1..Len(emitter.log) : emitter.log[i].op = "write" /\ emitter.log[i].function # ""}

\* C17: in one run of emit_all no function file is written twice: the files
\* of the user functions, of the event blocks and of the generated functions
\* of all modules have pairwise distinct paths.
C17_NoFileWrittenTwice ==
  \A i, j \in FunctionWrites : emitter.log[i].path = emitter.log[j].path => i = j

\* C18: emit_all removes the datapack directory only when build.clean is true
\* (and the directory exists), and the removal comes before every file the
\* build writes and every directory it makes; when build.clean is false the
\* build removes nothing: all it does to the file system is to make
\* directories and write its files.
C18_CleanPrecedesWrites ==
  \A i \in 1..Len(emitter.log) :
    /\ emitter.log[i].op = "rmtree" =>
         /\ config.build.clean
         /\ root_exists
         /\ i = 1
    /\ ~config.build.clean => emitter.log[i].op \in {"mkdir", "write"}

\* a build with build.clean true has removed the directory that existed and
\* has then written its function files
C18_CleanedThenWritten ==
  /\ Emitted
  /\ root_exists
  /\ config.build.clean
  /\ emitter.log[1].op = "rmtree"
  /\ FunctionWrites # {}


\* ------------------------------------------------------------------ properties of the lexer

\* the defined token patterns: all but the one that stands for an error
DefinedPatterns ==
  {token_specification[i].type : i \in 1..Len(token_specification)} \ {"MISMATCH"}

\* the patterns whose matches the lexer discards
DiscardedPatterns == {"COMMENT", "WHITESPACE", "NEWLINE"}

\* the whole of text is one match of a pattern among types
IsLexeme(text, types) ==
  \E i \in 1..Len(token_specification) :
    /\ token_specification[i].type \in types
    /\ PatternEnd(token_specification[i], text, 0) = Len(text)

\* text is a sequence of matches of patterns among types; with wholeComments a
\* comment among them runs to the end of its line
RECURSIVE Lexemes(_, _, _)
Lexemes(text, types, wholeComments) ==
  \/ text = <<>>
  \/ \E n \in 1..Len(text) :
       /\ IsLexeme(SubSeq(text, 1, n), types)
       /\ (wholeComments /\ text[1] = "#") => (n = Len(text) \/ text[n + 1] = "\n")
       /\ Lexemes(SubSeq(text, n + 1, Len(text)), types, wholeComments)

\* the tokens end with the one end-of-input token, at the end of the text
EndsWithOneEOF(tokens, text) ==
  /\ tokens # <<>>
  /\ tokens[Len(tokens)].type = "EOF"
  /\ tokens[Len(tokens)].start_char = Len(text)
  /\ tokens[Len(tokens)].end_char = Len(text)
  /\ \A i \in 1..(Len(tokens) - 1) : tokens[i].type # "EOF"

\* the spans of the tokens, in order, and discarded matches between them make
\* up the text: every token is the text of its span, a span starts where the
\* span before it ends or after discarded matches only
SpansPartition(tokens, text) ==
  \A i \in 1..Len(tokens) :
    \E before \in {IF i = 1 THEN 0 ELSE tokens[i - 1].end_char} :
      /\ before <= tokens[i].start_char
      /\ tokens[i].start_char <= tokens[i].end_char
      /\ tokens[i].end_char <= Len(text)
      /\ tokens[i].type # "EOF" => tokens[i].start_char < tokens[i].end_char
      /\ tokens[i].value = SubSeq(text, tokens[i].start_char + 1, tokens[i].end_char)
      /\ Lexemes(SubSeq(text, before + 1, tokens[i].start_char), DiscardedPatterns, FALSE)

MacrosNamed(map, i, name) ==
  {stmt \in Elements(map[i].module.statements) :
     stmt.kind = "MacroDeclaration" /\ stmt.name.name = name}

\* stmt is a call of a macro of the module of place i
CallsMacro(map, i, stmt) ==
  /\ stmt.kind = "CallStatement"
  /\ stmt.expression.callee.kind = "Identifier"
  /\ MacrosNamed(map, i, stmt.expression.callee.name) # {}

\* C20: when the body of a macro holds a call of another macro, expanding a
\* call of the outer macro in a function or event body expands the inner call
\* too: after expansion the body holds no call of a macro of the module.
C20_InnerCallsExpanded ==
  pc = "expand" =>
    \E r \in {expand(modules, k)} :
      r.error.err = "" =>
        \A n \in BodyPlaces(modules[k].module) :
          (\E call \in Elements(modules[k].module.statements[n].body.statements) :
             /\ CallsMacro(modules, k, call)
             /\ \E outer \in MacrosNamed(modules, k, call.expression.callee.name) :
                  \E inner \in Elements(outer.body.statements) :
                    CallsMacro(modules, k, inner))
            => \A stmt \in Elements(r.module.statements[n].body.statements) :
                 ~CallsMacro(modules, k, stmt)

\* ------------------------------------------------------------------ properties of substitution

\* the identifiers a statement binds: an assignment's target, a declaration's
\* name and parameters, a loop's variable
BindingNames(stmt) ==
  CASE stmt.kind = "AssignmentStatement" -> <<stmt.target>>
    [] stmt.kind \in {"FunctionDeclaration", "MacroDeclaration"} ->
         <<stmt.name>> \o stmt.params
    [] stmt.kind = "ForStatement" -> <<stmt.variable_name>>
    [] OTHER -> <<>>

\* the statements of a macro's body, at any depth, that bind a name
Binders(decl) ==
  {stmt \in Elements(StatementsIn(decl.body, TRUE)) : BindingNames(stmt) # <<>>}

\* C21: substitution leaves the identifiers in binding positions as they are:
\* when a call of a macro in a function or event body is expanded, every
\* statement of the macro body that binds names (an assignment's target, a
\* declaration's name and parameters, a loop's variable) is found in the
\* expanded body binding the same names, parameters of the macro included.
C21_BindingNamesKept ==
  pc = "expand" =>
    \E r \in {expand(modules, k)} :
      r.error.err = "" =>
        \A n \in BodyPlaces(modules[k].module) :
          \A call \in Elements(modules[k].module.statements[n].body.statements) :
            CallsMacro(modules, k, call) =>
              \A decl \in MacrosNamed(modules, k, call.expression.callee.name) :
                \A binder \in Binders(decl) :
                  \E stmt \in Elements(StatementsIn(r.module.statements[n].body, TRUE)) :
                    /\ stmt.kind = binder.kind
                    /\ BindingNames(stmt) = BindingNames(binder)

\* A tree written as the sequence of its nodes, parents first: a leaf is the
\* node itself, an inner node its kind with what is not a node of it, a list
\* is closed by an end mark.  Scopes are left out.  A call statement of one
\* of macros is written as what must stand in its place: the statements of
\* the macro's body in which, in one pass, each identifier named as a
\* parameter is the argument of that parameter.
RECURSIVE Leaves(_, _)
Leaves(node, macros) ==
  LET Mark(kind) == <<[kind |-> kind]>>
      List(nodes) == Flatten([j \in 1..Len(nodes) |-> Leaves(nodes[j], macros)])
                       \o Mark("end")
      OwnArgument(decl, call, name) ==
        call.expression.arguments[CHOOSE j \in 1..Len(decl.params) :
                                    decl.params[j].name = name]
      Instantiated(leaves, decl, call) ==
        Flatten([j \in 1..Len(leaves) |->
                   IF /\ leaves[j].kind = "Identifier"
                      /\ \E q \in 1..Len(decl.params) : decl.params[q].name = leaves[j].name
                   THEN Leaves(OwnArgument(decl, call, leaves[j].name), {})
                   ELSE <<leaves[j]>>])
  IN CASE node.kind = "BinaryExpr" ->
            <<[kind |-> node.kind, op |-> node.op]>>
              \o Leaves(node.left, macros) \o Leaves(node.right, macros)
       [] node.kind = "CallExpression" ->
            Mark(node.kind) \o Leaves(node.callee, macros) \o List(node.arguments)
       [] node.kind = "ImportItem" ->
            Mark(node.kind) \o Leaves(node.name, macros) \o Leaves(node.alias, macros)
       [] node.kind = "ImportStatement" ->
            <<[kind |-> node.kind, path |-> node.path, is_star_import |-> node.is_star_import]>>
              \o List(node.items)
       [] node.kind \in {"Block", "Module"} ->
            Mark(node.kind) \o List(node.statements)
       [] node.kind \in {"FunctionDeclaration", "MacroDeclaration"} ->
            Mark(node.kind) \o Leaves(node.name, macros) \o List(node.params)
              \o Leaves(node.body, macros)
       [] node.kind = "OnBlock" ->
            <<[kind |-> node.kind, event_type |-> node.event_type]>>
              \o Leaves(node.body, macros)
       [] node.kind = "IfStatement" ->
            Mark(node.kind) \o Leaves(node.condition, macros)
              \o Leaves(node.if_body, macros) \o Leaves(node.else_body, macros)
       [] node.kind = "ForStatement" ->
            Mark(node.kind) \o Leaves(node.variable_type, macros)
              \o Leaves(node.variable_name, macros) \o Leaves(node.iterable, macros)
              \o Leaves(node.body, macros)
       [] node.kind = "WhileStatement" ->
            Mark(node.kind) \o Leaves(node.condition, macros) \o Leaves(node.body, macros)
       [] node.kind = "AssignmentStatement" ->
            Mark(node.kind) \o Leaves(node.target, macros) \o Leaves(node.value, macros)
       [] node.kind = "CallStatement" ->
            IF /\ node.expression.callee.kind = "Identifier"
               /\ \E decl \in macros : decl.name.name = node.expression.callee.name
            THEN With(CHOOSE decl \in macros :
                        decl.name.name = node.expression.callee.name, LAMBDA decl :
                   Flatten([j \in 1..Len(decl.body.statements) |->
                              Instantiated(Leaves(decl.body.statements[j], {}), decl, node)]))
            ELSE Mark(node.kind) \o Leaves(node.expression, macros)
       [] OTHER -> <<node>>

\* the macro declarations at the top level of a module
MacrosOf(module) ==
  {stmt \in Elements(module.statements) : stmt.kind = "MacroDeclaration"}

\* the calls, at any depth of the body at place n of module, of the module's
\* macros
CallsIn(module, n) ==
  {stmt \in Elements(StatementsIn(module.statements[n], TRUE)) :
     /\ stmt.kind = "CallStatement"
     /\ stmt.expression.callee.kind = "Identifier"
     /\ \E decl \in MacrosOf(module) : decl.name.name = stmt.expression.callee.name}

\* the module imports nothing, its macros have parameters of different names
\* and hold no call of a macro
PlainMacros(module) ==
  /\ \A stmt \in Elements(StatementsIn(module, TRUE)) : stmt.kind # "ImportStatement"
  /\ \A decl \in MacrosOf(module) :
       /\ NoDuplicates([j \in 1..Len(decl.params) |-> decl.params[j].name])
       /\ \A inner \in Elements(StatementsIn(decl.body, TRUE)) :
            ~(/\ inner.kind = "CallStatement"
              /\ \E other \in MacrosOf(module) :
                   other.name.name = inner.expression.callee.name)

\* C22: substitution is simultaneous and not repeated: expanding a module
\* that declares its macros itself puts, in every function and event body,
\* in the place of each call of a macro the statements of the macro's body
\* with each identifier named as a parameter replaced by that parameter's
\* argument, an inserted argument being left as it is (for `macro m(a, b)`
\* called as `m(b, 1)`, `a` becomes `b` and not `1`); and every macro
\* declaration of the module is after the expansion what it was before.
C22_SubstitutedOnce ==
  pc = "expand" =>
    \E r \in {expand(modules, k)} :
      (r.error.err = "" /\ PlainMacros(modules[k].module)) =>
        /\ \A n \in BodyPlaces(modules[k].module) :
             Leaves(r.module.statements[n], {})
               = Leaves(modules[k].module.statements[n], MacrosOf(modules[k].module))
        /\ \A n \in 1..Len(modules[k].module.statements) :
             modules[k].module.statements[n].kind = "MacroDeclaration" =>
               /\ n <= Len(r.module.statements)
               /\ r.module.statements[n] = modules[k].module.statements[n]

\* `macro s(a, b) { x = a  y = b ... }` called as `s(b, 1)` in the load
\* handler: the expanded handler assigns b to x and 1 to y
C22_ArgumentNamesParameter ==
  /\ ExpansionDone
  /\ \E i \in 1..Len(expanded_modules) :
     \E n \in BodyPlaces(modules[i].module) :
       /\ \E call \in CallsIn(modules[i].module, n) :
            /\ Len(call.expression.arguments) = 2
            /\ call.expression.arguments[1] = Identifier("b")
            /\ \E decl \in MacrosOf(modules[i].module) :
                 /\ decl.name.name = call.expression.callee.name
                 /\ decl.params = <<Identifier("a"), Identifier("b")>>
       /\ \E stmt \in Elements(expanded_modules[i].module.statements[n].body.statements) :
            /\ stmt.kind = "AssignmentStatement"
            /\ stmt.target = Identifier("x")
            /\ stmt.value = Identifier("b")
       /\ \E stmt \in Elements(expanded_modules[i].module.statements[n].body.statements) :
            /\ stmt.kind = "AssignmentStatement"
            /\ stmt.target = Identifier("y")
            /\ stmt.value = NumberLiteral(1)

\* ------------------------------------------------------------------ properties of the stage order

\* the place of a stage in the build
StageOf(stage) ==
  CASE stage = "config" -> 1
    [] stage \in {"resolve", "resolve_loop"} -> 2
    [] stage = "symbols1" -> 3
    [] stage = "expand" -> 4
    [] stage = "symbols2" -> 5
    [] stage = "emit" -> 6
    [] stage = "end" -> 7

\* the stages that take the modules one by one
ModuleStages == {"symbols1", "expand", "symbols2"}

\* the build has raised
Raised(result) == result.status \in {"exit1", "propagated"}

Constructs(map) ==
  Flatten([i \in 1..Len(map) |->
             With(StatementsIn(map[i].module, FALSE), LAMBDA stmts :
               Flatten([j \in 1..Len(stmts) |->
                          IF stmts[j].kind \in {"IfStatement", "ForStatement",
                                                "WhileStatement"}
                          THEN <<[path |-> map[i].path, stmt |-> stmts[j]]>>
                          ELSE <<>>]))])

\* the function paths generated for a construct that is given the number n
SyntheticNames(construct, n) ==
  With(oort_path_to_function_base(construct.path), LAMBDA base :
    CASE construct.stmt.kind = "IfStatement" -> {base \o "/if_body_" \o ToString(n)}
      [] construct.stmt.kind = "ForStatement" ->
           {base \o "/for_loop_" \o construct.stmt.variable_name.name \o "_" \o ToString(n)}
      [] construct.stmt.kind = "WhileStatement" ->
           {base \o "/while_" \o ToString(n) \o "_check",
            base \o "/while_" \o ToString(n) \o "_body"})

\* the places of the emitter's log that write the function file of a path
WritesOf(function_path) ==
  {i \in FunctionWrites :
     emitter.log[i].path = McfunctionFile(config, function_path)}

\* C24: the counter of generated functions counts through the whole build,
\* each construct taking the next number before its body is lowered: when the
\* datapack is written, the n-th if, for or while statement the emitter came
\* to (over all modules, a statement before those nested in it) has its
\* functions written under the number n, the counter stands at the number of
\* these statements, and the generated names are pairwise different.
C24_CounterNumbersConstructs ==
  Emitted =>
    \E constructs \in {Constructs(expanded_modules)} :
      /\ emitter.function_count = Len(constructs)
      /\ \A n \in 1..Len(constructs) :
           /\ \A name \in SyntheticNames(constructs[n], n) : WritesOf(name) # {}
           /\ \A m \in 1..Len(constructs) :
                m # n => SyntheticNames(constructs[m], m)
                           \cap SyntheticNames(constructs[n], n) = {}
      /\ Cardinality(FunctionWrites)
           >= Cardinality(UNION {SyntheticNames(constructs[n], n) :
                                  n \in 1..Len(constructs)})

\* a datapack written from two modules that both hold such statements, one
\* of them nested in another
C24_NestedAndAcrossModules ==
  /\ Emitted
  /\ \E constructs \in {Constructs(expanded_modules)} :
       /\ \E m, n \in 1..Len(constructs) : constructs[m].path # constructs[n].path
       /\ \E n \in 1..(Len(constructs) - 1) :
            /\ constructs[n + 1].stmt \in Elements(StatementsIn(constructs[n].stmt, FALSE))
            /\ \A name \in SyntheticNames(constructs[n + 1], n + 1) : WritesOf(name) # {}

\* ------------------------------------------------------------------ properties of the parser

\* C25: expression parsing never takes `=` as an infix operator: no module
\* the resolver has parsed holds, in the value of an assignment, a condition,
\* an argument or an iterable, a binary expression whose operator is `=`.
C25_EqualsNeverInfix ==
  \A i \in 1..Len(modules) :
    \E leaves \in {Leaves(modules[i].module, {})} :
      \A n \in 1..Len(leaves) :
        ~(leaves[n].kind = "BinaryExpr" /\ leaves[n].op = "=")

\* a source text in which `(` follows something other than an identifier that
\* ends an expression: a closing parenthesis or a literal
CalleeNotIdentifier(source) ==
  \E i \in 1..(Len(source) - 1) :
    /\ source[i].type \in {"RPAREN", "NUMBER", "STRING", "SELECTOR"}
    /\ source[i + 1].type = "LPAREN"

\* C26: a call whose callee is not a bare identifier token is rejected: the
\* parse of a file in which `(` follows a closing parenthesis or a literal
\* (as in `(f)(x)`, `f(x)(y)` and `1(x)`) raises ParserError.
C26_OnlyIdentifierCallees ==
  (pc = "resolve_loop" /\ files_to_process # <<>>) =>
    \E file \in {FileAt(fs, Head(files_to_process))} :
      (file.kind = "file" /\ CalleeNotIdentifier(file.source)) =>
        parse_file(Head(files_to_process), file.source).err = "ParserError"

\* ------------------------------------------------------------------ properties of the lowered assignments

\* an assignment `t = l op r` of variables or integer literals
IsArithmetic(stmt) ==
  /\ stmt.kind = "AssignmentStatement"
  /\ stmt.target.kind = "Identifier"
  /\ stmt.value.kind = "BinaryExpr"
  /\ stmt.value.op \in {"+", "-", "*", "/"}
  /\ stmt.value.left.kind \in {"Identifier", "NumberLiteral"}
  /\ stmt.value.right.kind \in {"Identifier", "NumberLiteral"}

\* the variables of an arithmetic assignment
VariablesOf(stmt) ==
  {stmt.target.name}
    \cup (IF stmt.value.left.kind = "Identifier" THEN {stmt.value.left.name} ELSE {})
    \cup (IF stmt.value.right.kind = "Identifier" THEN {stmt.value.right.name} ELSE {})

\* the scores the variables may hold before the assignment
ScoreValues == {0 - 1, 1, 2, 3}

\* the score states in which the variables of stmt and one more holder have
\* scores
ScoreStates(stmt) ==
  {[NoRuntime EXCEPT !.loaded = TRUE, !.objectives = {VARS_OBJECTIVE}, !.scores = scores] :
     scores \in [VariablesOf(stmt) \cup {"other"} -> ScoreValues]}

\* the value of an operand in a score state
Operand(expr, rs) ==
  IF expr.kind = "NumberLiteral" THEN expr.value ELSE Score(rs, expr.name)

\* the value of `l op r` in a score state
Evaluated(value, rs) ==
  With(Operand(value.left, rs), LAMBDA l :
    With(Operand(value.right, rs), LAMBDA r :
      CASE value.op = "+" -> l + r
        [] value.op = "-" -> l - r
        [] value.op = "*" -> l * r
        [] value.op = "/" -> l \div r))

\* run in order from any score state, lines leave in the target the value of
\* the assignment's right side in that state and every other score as it was
Computes(lines, stmt) ==
  \A rs \in ScoreStates(stmt) :
    \E after \in {RunLines(emitter.log, "", lines, rs)} :
      /\ Score(after, stmt.target.name) = Evaluated(stmt.value, rs)
      /\ \A holder \in DOMAIN after.scores :
           holder # stmt.target.name =>
             holder \in DOMAIN rs.scores /\ after.scores[holder] = rs.scores[holder]

\* C27: an assignment `t = l op r` with op one of + - * / and l, r variables
\* or integer literals is lowered to one or two score commands that compute
\* it: in the file of every function or event body that holds such an
\* assignment stand, one after the other, commands that, run from any score
\* state, leave in t the value of `l op r` in that state and change no other
\* score, also when r is t itself and when l or r is a literal.
C27_AssignmentComputed ==
  Emitted =>
    \A i \in 1..Len(expanded_modules) :
      \A b \in Bodies(expanded_modules[i]) :
        \A n \in 1..Len(b.body.statements) :
          IsArithmetic(b.body.statements[n]) =>
            \E file \in {FileOf(b.function)} :
              \E h \in 1..Len(file), len \in {1, 2} :
                /\ h + len - 1 <= Len(file)
                /\ \A j \in h..(h + len - 1) :
                     SubSeq(file[j], 1, 2) = <<"scoreboard", "players">>
                /\ Computes(SubSeq(file, h, h + len - 1), b.body.statements[n])

\* ------------------------------------------------------------------ properties of the output buffers

\* the first line of a file written for a function or an event block
IsHeader(line) ==
  Len(line) >= 2 /\ line[1] = "#" /\ line[2] \in {"Function:", "Event:"}

\* the header line of the function or event block at place n of a module
HeaderOf(stmt) ==
  IF stmt.kind = "OnBlock" THEN <<"#", "Event:", "on", stmt.event_type>>
  ELSE <<"#", "Function:", stmt.name.name>>

\* C28: the file written for a function or event block of a module's top
\* level holds the lines of that construct only: it begins with the
\* construct's own header line and holds no other header line (no line of the
\* module's top level, of an enclosing or of a sibling declaration comes
\* before or among its lines), and it holds the `set` line of every
\* assignment from a literal that stands in the construct's body (a nested
\* declaration or a nested construct removes no line emitted before it).
C28_BuffersIsolated ==
  Emitted =>
    \A i \in 1..Len(expanded_modules) :
      \A n \in BodyPlaces(expanded_modules[i].module) :
        \E stmt \in {expanded_modules[i].module.statements[n]} :
        \E file \in {FileOf(config.package.namespace \o ":"
                              \o oort_path_to_function_base(expanded_modules[i].path)
                              \o "/" \o (IF stmt.kind = "OnBlock"
                                         THEN "on_" \o stmt.event_type
                                         ELSE stmt.name.name))} :
          /\ file # <<>>
          /\ file[1] = HeaderOf(stmt)
          /\ \A j \in 2..Len(file) : ~IsHeader(file[j])
          /\ \A m \in 1..Len(stmt.body.statements) :
               (/\ stmt.body.statements[m].kind = "AssignmentStatement"
                /\ stmt.body.statements[m].value.kind = "NumberLiteral") =>
                 \E j \in 1..Len(file) :
                   file[j] = <<"scoreboard", "players", "set",
                               stmt.body.statements[m].target.name, VARS_OBJECTIVE,
                               ToString(stmt.body.statements[m].value.value)>>

\* ------------------------------------------------------------------ properties of the second symbol pass

\* a tree with every scope taken off: what the parser makes
RECURSIVE Unscoped(_)
Unscoped(node) ==
  CASE node.kind \in {"Module", "Block"} ->
         [node EXCEPT !.scope = NoScope,
                      !.statements = [j \in 1..Len(@) |-> Unscoped(@[j])]]
    [] node.kind \in {"FunctionDeclaration", "MacroDeclaration", "OnBlock",
                      "ForStatement", "WhileStatement"} ->
         [node EXCEPT !.scope = NoScope, !.body = Unscoped(@)]
    [] node.kind = "IfStatement" ->
         [node EXCEPT !.scope = NoScope, !.if_body = Unscoped(@), !.else_body = Unscoped(@)]
    [] node.kind \in {"ImportStatement", "AssignmentStatement", "CallStatement"} ->
         [node EXCEPT !.scope = NoScope]
    [] OTHER -> node

\* the second symbol pass has visited every module
SecondPassDone == pc = "emit" \/ (pc = "end" /\ outcome.stage = "emit")

\* the names of the symbols of a scope
NamesIn(scope) == {scope.symbols[j].name : j \in 1..Len(scope.symbols)}

\* C29: after the second symbol pass no node of an expanded module carries a
\* scope of the first pass: each module is, scope for scope, what the builder
\* makes of the expanded tree with every scope taken off, so every scope that
\* is set was set by the second pass; and the scope of the module and the
\* scope of every statement in a block hold the names the statement lists of
\* the expanded module declare there, those of statements spliced in from a
\* macro body included.
C29_ScopesOfSecondPass ==
  SecondPassDone =>
    \A i \in 1..Len(expanded_modules) :
      \E entry \in {expanded_modules[i]} :
      \E r \in {build(Unscoped(entry.module), entry.path)} :
        /\ r.err = ""
        /\ entry.module = r.module
        /\ entry.scopes = r.scopes
        /\ entry.module.scope # NoScope
        /\ \A n \in 1..Len(entry.module.statements) :
             DeclaredNames(entry.module.statements[n])
               \subseteq NamesIn(entry.scopes[entry.module.scope])
        /\ \E stmts \in {StatementsIn(entry.module, FALSE)} :
             \A n \in 1..Len(stmts) :
               stmts[n].scope # NoScope =>
                 DeclaredNames(stmts[n]) \subseteq NamesIn(entry.scopes[stmts[n].scope])

\* a module in which expansion put a block before a handler: after the
\* second pass a statement of that handler has another scope than the first
\* pass gave it, and a statement spliced in has a scope
C29_ScopeReplaced ==
  /\ SecondPassDone
  /\ \E i \in 1..Len(expanded_modules) :
       /\ \E n \in BodyPlaces(modules[i].module) :
          \E before \in {modules[i].module.statements[n].body.statements} :
          \E after \in {expanded_modules[i].module.statements[n].body.statements} :
            /\ Len(before) = Len(after)
            /\ \E j \in 1..Len(after) :
                 /\ Unscoped(before[j]) = Unscoped(after[j])
                 /\ before[j].scope # NoScope
                 /\ after[j].scope # before[j].scope
       /\ \E n \in BodyPlaces(modules[i].module) :
          \E before \in {modules[i].module.statements[n].body.statements} :
          \E after \in {expanded_modules[i].module.statements[n].body.statements} :
            /\ Len(before) = 1 /\ CallsMacro(modules, i, before[1])
            /\ Len(after) = 1 /\ after[1].kind = "IfStatement"
            /\ after[1].scope # NoScope

====
